---------------------------- MODULE Spec2Model ----------------------------
(***************************************************************************)
(* The financial analysis pipeline: Backtester (trading/backtesting.py),    *)
(* SignalConfig and SignalGenerator (trading/signals.py),                  *)
(* TechnicalIndicators (analysis/indicators.py), FinancialMetrics          *)
(* (analysis/metrics.py) and run_pipeline (main.py), all under src/src.    *)
(* A table is a function from column names to series, a dict a function    *)
(* whose domain is its set of keys.                                        *)
(*                                                                         *)
(* Series are sequences indexed 1..N; the timestamp of row t is the day    *)
(* number t.  Floating point values are exact rationals [nan, num, den]    *)
(* with den > 0; NaN is the value with nan = TRUE.                         *)
(***************************************************************************)
EXTENDS Integers, Sequences, FiniteSets, TLC

(* ------------------------------ bounds -------------------------------- *)
MaxLen == 4          \* longest price / signal series given to the Backtester
MaxPrice == 2        \* Backtester prices range over 1..MaxPrice
MaxCommission == 1   \* commission rate ranges over 0..MaxCommission thousandths
MaxBars == 4         \* longest OHLC table given to the SignalGenerator
MaxClose == 4        \* Close prices of that table range over 1..MaxClose
MaxSupplied == 2     \* most parameters a SignalConfig is given explicitly
MaxIndicators == 3   \* most entries of IndicatorConfig.enabled
MaxRows == 3         \* longest table given to TechnicalIndicators
MaxTickers == 3      \* longest ticker list given to run_pipeline
MaxReturns == 4      \* longest return series given to FinancialMetrics

(* ----------------------------- constants ------------------------------ *)
CommissionScale == 1000   \* config['commission'] = commission / CommissionScale
None == 0                 \* Python None for entry_price / entry_date

VARIABLES
    prices,            \* Backtester.prices values (Close), a sequence
    pricesIndex,       \* kind of prices.index: "datetime" or "range"
    signals,           \* Backtester.signals values, a sequence of strings
    signalsIndex,      \* signals.index: "same", "shifted" (datetime, other days) or "range"
    commission,        \* config['commission'] in thousandths
    pc,                \* position of Backtester.run
    error,             \* the ValueError raised by run, or "none"
    i,                 \* loop index of _generate_positions
    position,          \* local 'position' of _generate_positions
    positions,         \* the positions series
    returns,           \* the strategy returns series (date -> rational), after dropna
    j,                 \* loop index of _generate_trade_history
    tposition,         \* local 'position' of _generate_trade_history
    entry_price,       \* local of _generate_trade_history
    entry_date,        \* local of _generate_trade_history
    trades,            \* the trade ledger, a sequence of records
    metrics,           \* "none" until _calculate_performance_metrics has run
    close,             \* the Close column of the OHLC table given to SignalGenerator
    enabled,           \* the indicator names n with config.enabled.get(n, False)
    parameters,        \* config.parameters
    data,              \* SignalGenerator.data: the indicator columns
    sgpc,              \* position of the SignalGenerator
    primary,           \* the series returned by generate_signals
    signal_series,     \* _run_backtest: the series given to the Backtester
    not_dict,          \* the objects of a SignalConfig that are not dicts
    group_order,       \* the key order of SignalConfig.parameters
    cfgpc,             \* position of the SignalConfig constructor
    cfgerror,          \* the ValueError raised by validate, or "none"
    ohlc_data,         \* the caller's table given to SignalGenerator (column -> series)
    caller_data,       \* the caller's table given to TechnicalIndicators
    ti_enabled,        \* IndicatorConfig.enabled in key order: [indicator, enabled]
    ti_parameters,     \* IndicatorConfig.parameters
    ti_data,           \* TechnicalIndicators.data
    ti_ref,            \* the object self.data refers to: "private" or "caller"
    ti_k,              \* position of the loop of calculate_enabled_indicators
    tipc,              \* position of the TechnicalIndicators run
    ti_error,          \* the exception calculate_enabled_indicators raised, or "none"
    tickers,           \* args.tickers
    ticker_index,      \* position of 'for ticker in self.args.tickers'
    stage,             \* the stage the current ticker is about to run, or "none"
    results,           \* the dict 'results' of run_pipeline (ticker -> record)
    attempted,         \* the tickers whose iteration has begun, in order
    logged,            \* the logger.error records: [index, stage, exception]
    plpc,              \* position of run_pipeline
    fm_input,          \* the return series given to FinancialMetrics
    fm_returns,        \* FinancialMetrics.returns
    fm_metrics,        \* the dict returned by calculate_all
    fmpc               \* position of the FinancialMetrics

vars == <<prices, pricesIndex, signals, signalsIndex, commission, pc, error, i,
          position, positions, returns, j, tposition, entry_price, entry_date,
          trades, metrics, close, enabled, parameters, data, sgpc, primary,
          signal_series, not_dict, group_order, cfgpc, cfgerror, ohlc_data,
          caller_data, ti_enabled, ti_parameters, ti_data, ti_ref, ti_k, tipc,
          ti_error, tickers, ticker_index, stage, results, attempted, logged,
          plpc, fm_input, fm_returns, fm_metrics, fmpc>>

inputVars == <<prices, pricesIndex, signals, signalsIndex, commission>>
btVars == <<prices, pricesIndex, signals, signalsIndex, commission, pc, error, i,
            position, positions, returns, j, tposition, entry_price, entry_date,
            trades, metrics>>
sgVars == <<close, enabled, parameters, data, sgpc, primary, signal_series,
            ohlc_data>>

\* what the actions of one component leave alone
cfgVars == <<not_dict, group_order, cfgpc, cfgerror>>
tiVars == <<caller_data, ti_enabled, ti_parameters, ti_data, ti_ref, ti_k, tipc,
            ti_error>>
plVars == <<tickers, ticker_index, stage, results, attempted, logged, plpc>>
fmVars == <<fm_input, fm_returns, fm_metrics, fmpc>>
notBt == <<sgVars, cfgVars, tiVars, plVars, fmVars>>
notSg == <<btVars, cfgVars, tiVars, plVars, fmVars>>

(* ----------------------------- rationals ------------------------------ *)
NaN == [nan |-> TRUE, num |-> 0, den |-> 1]
Rat(n, d) == [nan |-> FALSE, num |-> n, den |-> d]
IsNaN(x) == x.nan
Abs(n) == IF n < 0 THEN -n ELSE n

\* x * y on floats: NaN if either operand is NaN
RatMul(x, y) ==
    IF x.nan \/ y.nan THEN NaN ELSE Rat(x.num * y.num, x.den * y.den)

\* x - y on floats: NaN if either operand is NaN
RatSub(x, y) ==
    IF x.nan \/ y.nan THEN NaN
    ELSE Rat(x.num * y.den - y.num * x.den, x.den * y.den)

\* equality of two non-NaN values (NaN equals nothing)
RatEq(x, y) == ~x.nan /\ ~y.nan /\ x.num * y.den = y.num * x.den

(* --------------------------- signal alphabet -------------------------- *)
SignalNames == {"NEUTRAL", "BUY", "SELL", "STRONG_BUY", "STRONG_SELL"}
BacktestVocabulary == {"BUY", "SELL", "NEUTRAL"}

(* ------------------------- pandas series operators -------------------- *)
\* Series.pct_change(): (p[t] - p[t-1]) / p[t-1], NaN in the first row
pct_change(p) ==
    [t \in 1..Len(p) |-> IF t = 1 THEN NaN ELSE Rat(p[t] - p[t-1], p[t-1])]

\* an integer series as a float series
AsFloat(s) == [t \in 1..Len(s) |-> Rat(s[t], 1)]

\* shift with no lag: a position acts on the bar it is taken in
shift_same_bar(s) ==
    [t \in 1..Len(s) |-> s[t]]

\* Series.shift(1): the previous row's value, NaN in the first row
shift(s) ==
    [t \in 1..Len(s) |-> IF t = 1 THEN NaN ELSE s[t-1]]

\* Series.diff(): s[t] - s[t-1], NaN in the first row
diff(s) ==
    [t \in 1..Len(s) |-> IF t = 1 THEN NaN ELSE Rat(s[t] - s[t-1], 1)]

\* Series.abs()
SeriesAbs(s) ==
    [t \in 1..Len(s) |-> IF s[t].nan THEN NaN ELSE Rat(Abs(s[t].num), s[t].den)]

\* Series.dropna(): the rows whose value is not NaN, keyed by their date
dropna(s) ==
    [t \in {u \in 1..Len(s) : ~s[u].nan} |-> s[t]]

(* ------------------------------ Backtester ---------------------------- *)
\* _validate_inputs without the vocabulary check of lines 66-67
validate_inputs_no_vocabulary(p, pIndex, sig) ==
    IF Len(p) # Len(sig) THEN "length"
    ELSE IF pIndex # "datetime" THEN "index"
    ELSE "none"

\* Backtester._validate_inputs: the error it raises, "none" if it returns
validate_inputs(p, pIndex, sig) ==
    IF Len(p) # Len(sig) THEN "length"
    ELSE IF pIndex # "datetime" THEN "index"
    ELSE IF \E k \in 1..Len(sig) : sig[k] \notin BacktestVocabulary THEN "vocabulary"
    ELSE "none"

\* the transition in which an opposite signal closes the position to FLAT
next_position_close_first(signal, pos) ==
    IF signal = "BUY" /\ pos <= 0 THEN pos + 1
    ELSE IF signal = "SELL" /\ pos >= 0 THEN pos - 1
    ELSE pos

\* the transition with strict comparisons: a signal while FLAT is ignored
next_position_strict(signal, pos) ==
    IF signal = "BUY" /\ pos < 0 THEN 1
    ELSE IF signal = "SELL" /\ pos > 0 THEN -1
    ELSE pos

\* the transition in which a repeated same-direction signal closes the position
next_position_toggle(signal, pos) ==
    IF signal = "BUY" THEN (IF pos <= 0 THEN 1 ELSE 0)
    ELSE IF signal = "SELL" THEN (IF pos >= 0 THEN -1 ELSE 0)
    ELSE pos

\* one iteration of the loop of Backtester._generate_positions: the new
\* value of the local 'position', which is also written to positions.iloc[i]
next_position(signal, pos) ==
    IF signal = "BUY" /\ pos <= 0 THEN 1
    ELSE IF signal = "SELL" /\ pos >= 0 THEN -1
    ELSE pos

\* _calculate_returns charging the commission rate on every row
calculate_returns_flat_fee(p, poss, comm) ==
    LET price_returns == pct_change(p)
        shifted == shift(AsFloat(poss))
        strategy_returns ==
            [t \in 1..Len(p) |-> RatMul(shifted[t], price_returns[t])]
        commissions == [t \in 1..Len(p) |-> Rat(comm, CommissionScale)]
        net == [t \in 1..Len(p) |-> RatSub(strategy_returns[t], commissions[t])]
    IN  dropna(net)

\* Backtester._calculate_returns
calculate_returns(p, poss, comm) ==
    LET price_returns == pct_change(p)
        shifted == shift(AsFloat(poss))
        strategy_returns ==
            [t \in 1..Len(p) |-> RatMul(shifted[t], price_returns[t])]
        position_changes == SeriesAbs(diff(poss))
        commissions ==
            [t \in 1..Len(p) |->
                RatMul(position_changes[t], Rat(comm, CommissionScale))]
        net == [t \in 1..Len(p) |-> RatSub(strategy_returns[t], commissions[t])]
    IN  dropna(net)

\* the Trade that exits at the last row on which the position was held
Trade_exit_at_last_held_row(p, date, pos, e_price, e_date) ==
    [entry_date  |-> e_date,
     exit_date   |-> date - 1,
     position    |-> pos,
     entry_price |-> e_price,
     exit_price  |-> p[date - 1],
     return      |-> Rat((p[date - 1] - e_price) * pos, e_price),
     duration    |-> date - 1 - e_date]

\* the Trade whose return leaves out the position sign
Trade_unsigned(p, date, pos, e_price, e_date) ==
    [entry_date  |-> e_date,
     exit_date   |-> date,
     position    |-> pos,
     entry_price |-> e_price,
     exit_price  |-> p[date],
     return      |-> Rat(p[date] - e_price, e_price),
     duration    |-> date - e_date]

\* the Trade appended by Backtester._generate_trade_history when a non-flat
\* position entered at (e_date, e_price) is left at 'date'
Trade(p, date, pos, e_price, e_date) ==
    [entry_date  |-> e_date,
     exit_date   |-> date,
     position    |-> pos,
     entry_price |-> e_price,
     exit_price  |-> p[date],
     return      |-> Rat((p[date] - e_price) * pos, e_price),
     duration    |-> date - e_date]

\* run, line 46: self._validate_inputs()
ValidateInputs ==
    /\ pc = "start"
    /\ error' = validate_inputs(prices, pricesIndex, signals)
    /\ pc' = IF error' = "none" THEN "generate_positions" ELSE "raised"
    /\ UNCHANGED <<inputVars, i, position, positions, returns, j, tposition,
                   entry_price, entry_date, trades, metrics>>
    /\ UNCHANGED notBt

\* _generate_positions, lines 71-72: the zero series and the local position
GeneratePositionsBegin ==
    /\ pc = "generate_positions"
    /\ positions' = [t \in 1..Len(prices) |-> 0]
    /\ position' = 0
    /\ i' = 1
    /\ pc' = "positions_loop"
    /\ UNCHANGED <<inputVars, error, returns, j, tposition, entry_price,
                   entry_date, trades, metrics>>
    /\ UNCHANGED notBt

\* _generate_positions, lines 74-82: one iteration over self.signals.items()
PositionStep ==
    /\ pc = "positions_loop"
    /\ i <= Len(signals)
    /\ position' = next_position(signals[i], position)
    /\ positions' = [positions EXCEPT ![i] = position']
    /\ i' = i + 1
    /\ UNCHANGED <<inputVars, pc, error, returns, j, tposition, entry_price,
                   entry_date, trades, metrics>>
    /\ UNCHANGED notBt

\* run, line 48: returns = self._calculate_returns(positions)
CalculateReturns ==
    /\ pc = "positions_loop"
    /\ i > Len(signals)
    /\ returns' = calculate_returns(prices, positions, commission)
    /\ pc' = "generate_trade_history"
    /\ UNCHANGED <<inputVars, error, i, position, positions, j, tposition,
                   entry_price, entry_date, trades, metrics>>
    /\ UNCHANGED notBt

\* _generate_trade_history, lines 100-103
TradeHistoryBegin ==
    /\ pc = "generate_trade_history"
    /\ trades' = << >>
    /\ tposition' = 0
    /\ entry_price' = None
    /\ entry_date' = None
    /\ j' = 1
    /\ pc' = "trades_loop"
    /\ UNCHANGED <<inputVars, error, i, position, positions, returns, metrics>>
    /\ UNCHANGED notBt

\* _generate_trade_history, lines 105-124: one iteration over positions.items()
TradeStep ==
    /\ pc = "trades_loop"
    /\ j <= Len(positions)
    /\ LET date == j
           pos == positions[j]
       IN  IF pos # tposition
           THEN /\ trades' = IF tposition # 0
                             THEN Append(trades,
                                     Trade(prices, date, tposition, entry_price, entry_date))
                             ELSE trades
                /\ entry_price' = IF pos # 0 THEN prices[date] ELSE entry_price
                /\ entry_date' = IF pos # 0 THEN date ELSE entry_date
                /\ tposition' = pos
           ELSE UNCHANGED <<trades, entry_price, entry_date, tposition>>
    /\ j' = j + 1
    /\ UNCHANGED <<inputVars, pc, error, i, position, positions, returns, metrics>>
    /\ UNCHANGED notBt

\* run, lines 51-56: the metrics are computed and the result is returned
PerformanceMetrics ==
    /\ pc = "trades_loop"
    /\ j > Len(positions)
    /\ metrics' = "computed"
    /\ pc' = "done"
    /\ UNCHANGED <<inputVars, error, i, position, positions, returns, j,
                   tposition, entry_price, entry_date, trades>>
    /\ UNCHANGED notBt


(* --------------------------- float comparisons ------------------------ *)
\* x > y on floats: False if either operand is NaN
Gt(x, y) ==
    /\ ~x.nan /\ ~y.nan
    /\ IF x.den = y.den THEN x.num > y.num ELSE x.num * y.den > y.num * x.den

\* x < y, x >= y, x <= y on floats: False if either operand is NaN
Lt(x, y) == Gt(y, x)
Ge(x, y) == ~x.nan /\ ~y.nan /\ ~Gt(y, x)
Le(x, y) == Ge(y, x)

RECURSIVE SumRange(_, _, _)
\* x[a] + ... + x[b]
SumRange(x, a, b) == IF a > b THEN 0 ELSE x[a] + SumRange(x, a + 1, b)

RECURSIVE Pow(_, _)
Pow(b, e) == IF e = 0 THEN 1 ELSE b * Pow(b, e - 1)

\* a rolling mean over the rows seen so far (min_periods = 1): no NaN rows
rolling_mean_min_periods(x, w) ==
    [t \in 1..Len(x) |->
        IF t < w THEN Rat(SumRange(x, 1, t), t) ELSE Rat(SumRange(x, t - w + 1, t), w)]
\* Series.rolling(w).mean() of an integer series: NaN in the first w-1 rows
rolling_mean(x, w) ==
    [t \in 1..Len(x) |->
        IF t < w THEN NaN ELSE Rat(SumRange(x, t - w + 1, t), w)]

\* the square of Series.rolling(w).std() (sample variance, ddof = 1): NaN in
\* the first w-1 rows and for a window of one row
rolling_var(x, w) ==
    [t \in 1..Len(x) |->
        IF t < w \/ w < 2 THEN NaN
        ELSE LET S == SumRange(x, t - w + 1, t)
                 Q == SumRange([u \in 1..Len(x) |-> x[u] * x[u]], t - w + 1, t)
             IN  Rat(w * Q - S * S, w * (w - 1))]

\* Series.ewm(span, adjust=False).mean() of the series num[t] / scale^(t-1):
\* y[1] = x[1], y[t] = ((span-1) y[t-1] + 2 x[t]) / (span+1); the result is
\* the numerators of y[t] over the denominator (scale (span+1))^(t-1)
ewm_mean(num, scale, span) ==
    LET y[t \in 1..Len(num)] ==
            IF t = 1 THEN num[1]
            ELSE (span - 1) * y[t-1] * scale + 2 * num[t] * Pow(span + 1, t - 2)
    IN  y

(* --------------------------- SignalGenerator -------------------------- *)
IndicatorNames == {"rsi", "moving_average", "bollinger", "macd"}

\* a Bollinger band value mean -/+ sqrt(dev2), dev2 = (std_dev * rolling std)^2
Band(mean, var, std_dev) ==
    [nan |-> mean.nan \/ var.nan,
     mean |-> mean,
     dev2 |-> IF var.nan THEN NaN
              ELSE Rat(std_dev.num * std_dev.num * var.num,
                       std_dev.den * std_dev.den * var.den)]

\* (mean - c) > sqrt(dev2) for sign = 1, (c - mean) > sqrt(dev2) for sign = -1
Outside(c, band, sign) ==
    /\ ~band.nan
    /\ LET d == sign * (band.mean.num - c * band.mean.den)   \* distance times mean.den
       IN  /\ d > 0
           /\ d * d * band.dev2.den > band.dev2.num * band.mean.den * band.mean.den

\* Close < BB_Lower and Close > BB_Upper
BelowLower(c, band) == Outside(c, band, 1)
AboveUpper(c, band) == Outside(c, band, -1)

\* the RSI column, lines 102-106: 100 - 100 / (1 + gain / loss); gain / loss is
\* inf when only the loss is 0 (RSI 100) and NaN when both are 0
RSIColumn(c, period) ==
    LET delta == diff(c)
        gain == [t \in 1..Len(c) |->
                    IF ~delta[t].nan /\ delta[t].num > 0 THEN delta[t].num ELSE 0]
        loss == [t \in 1..Len(c) |->
                    IF ~delta[t].nan /\ delta[t].num < 0 THEN -delta[t].num ELSE 0]
        avg_gain == rolling_mean(gain, period)
        avg_loss == rolling_mean(loss, period)
    IN  [t \in 1..Len(c) |->
            IF avg_gain[t].nan \/ avg_loss[t].nan THEN NaN
            ELSE IF avg_loss[t].num = 0
                 THEN (IF avg_gain[t].num = 0 THEN NaN ELSE Rat(100, 1))
                 ELSE Rat(100 * avg_gain[t].num, avg_gain[t].num + avg_loss[t].num)]

\* the MACD and Signal_Line columns, lines 125-128, over one denominator
MACDColumns(c, fast, slow, signal) ==
    LET exp1 == ewm_mean(c, 1, fast)           \* over (fast+1)^(t-1)
        exp2 == ewm_mean(c, 1, slow)           \* over (slow+1)^(t-1)
        D == (fast + 1) * (slow + 1)
        macd == [t \in 1..Len(c) |->           \* over D^(t-1)
                    exp1[t] * Pow(slow + 1, t - 1) - exp2[t] * Pow(fast + 1, t - 1)]
        line == ewm_mean(macd, D, signal)      \* over (D (signal+1))^(t-1)
    IN  [MACD |-> [t \in 1..Len(c) |->
                      Rat(macd[t] * Pow(signal + 1, t - 1), Pow(D * (signal + 1), t - 1))],
         Signal_Line |-> [t \in 1..Len(c) |->
                      Rat(line[t], Pow(D * (signal + 1), t - 1))]]

\* SignalGenerator._precompute_indicators: the columns of self.data; the
\* columns of an indicator that is not enabled are not written (empty here)
precompute_indicators(c, en, params) ==
    LET ma == params.moving_average
        bb == params.bollinger
        mc == MACDColumns(c, params.macd.fast_period, params.macd.slow_period,
                          params.macd.signal_period)
        rolling_mean_bb == rolling_mean(c, bb.window)
        rolling_var_bb == rolling_var(c, bb.window)
        band == [t \in 1..Len(c) |->
                    Band(rolling_mean_bb[t], rolling_var_bb[t], bb.std_dev)]
    IN  [Close |-> c,
         RSI |-> IF "rsi" \in en THEN RSIColumn(c, params.rsi.period) ELSE << >>,
         MA_Short |-> IF "moving_average" \in en
                      THEN rolling_mean(c, ma.short_window) ELSE << >>,
         MA_Long |-> IF "moving_average" \in en
                     THEN rolling_mean(c, ma.long_window) ELSE << >>,
         BB_Upper |-> IF "bollinger" \in en THEN band ELSE << >>,
         BB_Lower |-> IF "bollinger" \in en THEN band ELSE << >>,
         MACD |-> IF "macd" \in en THEN mc.MACD ELSE << >>,
         Signal_Line |-> IF "macd" \in en THEN mc.Signal_Line ELSE << >>]

\* a condition of generate_signals: the Python scalar False (scalar = TRUE) or
\* a boolean series
ScalarFalse == [scalar |-> TRUE, v |-> << >>]
Mask(v) == [scalar |-> FALSE, v |-> v]
AllFalse(m) == Mask([t \in DOMAIN m.v |-> FALSE])

\* a & b
MaskAnd(a, b) ==
    IF a.scalar /\ b.scalar THEN ScalarFalse
    ELSE IF a.scalar THEN AllFalse(b)
    ELSE IF b.scalar THEN AllFalse(a)
    ELSE Mask([t \in DOMAIN a.v |-> a.v[t] /\ b.v[t]])

\* a | b
MaskOr(a, b) ==
    IF a.scalar THEN b
    ELSE IF b.scalar THEN a
    ELSE Mask([t \in DOMAIN a.v |-> a.v[t] \/ b.v[t]])

\* a & ~b; for two scalars this is False & -1, the integer 0
MaskAndNot(a, b) ==
    IF a.scalar /\ b.scalar THEN ScalarFalse
    ELSE IF a.scalar THEN AllFalse(b)
    ELSE IF b.scalar THEN a
    ELSE Mask([t \in DOMAIN a.v |-> a.v[t] /\ ~b.v[t]])

\* signals.loc[mask] = value.  A boolean series selects the rows to set.  The
\* scalars False and 0 are labels, not masks: setting a label that is not in
\* the index appends a row, and 0 addresses the row labelled False.
LocSet(sig, mask, value) ==
    IF mask.scalar
    THEN [sig EXCEPT !.extra = <<value>>]
    ELSE [sig EXCEPT !.rows = [t \in DOMAIN sig.rows |->
                                  IF mask.v[t] THEN value ELSE sig.rows[t]]]

\* x is above y at row t, whatever the row before
CrossAbove_level(x, y) ==
    Mask([t \in 1..Len(x) |-> Gt(x[t], y[t])])

\* x crosses above y at row t: x > y now and x.shift(1) <= y.shift(1)
CrossAbove(x, y) ==
    Mask([t \in 1..Len(x) |-> Gt(x[t], y[t]) /\ Le(shift(x)[t], shift(y)[t])])

\* x crosses below y at row t: x < y now and x.shift(1) >= y.shift(1)
CrossBelow(x, y) ==
    Mask([t \in 1..Len(x) |-> Lt(x[t], y[t]) /\ Ge(shift(x)[t], shift(y)[t])])

\* the conditions with the RSI conditions initialised to True instead of False
Conditions_rsi_default_true(d, en, params) ==
    LET ma == "moving_average" \in en
        rsi == "rsi" \in en
        bb == "bollinger" \in en
        macd == "macd" \in en
        rows == 1..Len(d.Close)
    IN  [ma_cross_above |->
            IF ma THEN CrossAbove(d.MA_Short, d.MA_Long) ELSE ScalarFalse,
         ma_cross_below |->
            IF ma THEN CrossBelow(d.MA_Short, d.MA_Long) ELSE ScalarFalse,
         rsi_overbought |->
            IF rsi THEN Mask([t \in rows |-> Gt(d.RSI[t], Rat(params.rsi.overbought, 1))])
            ELSE Mask([t \in rows |-> TRUE]),
         rsi_oversold |->
            IF rsi THEN Mask([t \in rows |-> Lt(d.RSI[t], Rat(params.rsi.oversold, 1))])
            ELSE Mask([t \in rows |-> TRUE]),
         price_below_bb_lower |->
            IF bb THEN Mask([t \in rows |-> BelowLower(d.Close[t], d.BB_Lower[t])])
            ELSE ScalarFalse,
         price_above_bb_upper |->
            IF bb THEN Mask([t \in rows |-> AboveUpper(d.Close[t], d.BB_Upper[t])])
            ELSE ScalarFalse,
         macd_above_signal |->
            IF macd THEN CrossAbove(d.MACD, d.Signal_Line) ELSE ScalarFalse,
         macd_below_signal |->
            IF macd THEN CrossBelow(d.MACD, d.Signal_Line) ELSE ScalarFalse]

\* the eight conditions of generate_signals, lines 140-169
Conditions(d, en, params) ==
    LET ma == "moving_average" \in en
        rsi == "rsi" \in en
        bb == "bollinger" \in en
        macd == "macd" \in en
        rows == 1..Len(d.Close)
    IN  [ma_cross_above |->
            IF ma THEN CrossAbove(d.MA_Short, d.MA_Long) ELSE ScalarFalse,
         ma_cross_below |->
            IF ma THEN CrossBelow(d.MA_Short, d.MA_Long) ELSE ScalarFalse,
         rsi_overbought |->
            IF rsi THEN Mask([t \in rows |-> Gt(d.RSI[t], Rat(params.rsi.overbought, 1))])
            ELSE ScalarFalse,
         rsi_oversold |->
            IF rsi THEN Mask([t \in rows |-> Lt(d.RSI[t], Rat(params.rsi.oversold, 1))])
            ELSE ScalarFalse,
         price_below_bb_lower |->
            IF bb THEN Mask([t \in rows |-> BelowLower(d.Close[t], d.BB_Lower[t])])
            ELSE ScalarFalse,
         price_above_bb_upper |->
            IF bb THEN Mask([t \in rows |-> AboveUpper(d.Close[t], d.BB_Upper[t])])
            ELSE ScalarFalse,
         macd_above_signal |->
            IF macd THEN CrossAbove(d.MACD, d.Signal_Line) ELSE ScalarFalse,
         macd_below_signal |->
            IF macd THEN CrossBelow(d.MACD, d.Signal_Line) ELSE ScalarFalse]

\* the combined signals with the SELL assignment made before the BUY one
CombineSignals_buy_last(n, c) ==
    LET strong_buy == MaskAnd(MaskAnd(MaskAnd(c.ma_cross_above, c.rsi_oversold),
                                      c.price_below_bb_lower), c.macd_above_signal)
        strong_sell == MaskAnd(MaskAnd(MaskAnd(c.ma_cross_below, c.rsi_overbought),
                                       c.price_above_bb_upper), c.macd_below_signal)
        buy == MaskOr(c.ma_cross_above, c.macd_above_signal)
        sell == MaskOr(c.ma_cross_below, c.macd_below_signal)
        s0 == [rows |-> [t \in 1..n |-> "NEUTRAL"], extra |-> << >>]
        s1 == LocSet(s0, strong_buy, "STRONG_BUY")
        s2 == LocSet(s1, strong_sell, "STRONG_SELL")
        s3 == LocSet(s2, MaskAndNot(sell, strong_sell), "SELL")
        s4 == LocSet(s3, MaskAndNot(buy, strong_buy), "BUY")
    IN  s4

\* the combined signals, lines 172-180: four assignments in program order
CombineSignals(n, c) ==
    LET strong_buy == MaskAnd(MaskAnd(MaskAnd(c.ma_cross_above, c.rsi_oversold),
                                      c.price_below_bb_lower), c.macd_above_signal)
        strong_sell == MaskAnd(MaskAnd(MaskAnd(c.ma_cross_below, c.rsi_overbought),
                                       c.price_above_bb_upper), c.macd_below_signal)
        buy == MaskOr(c.ma_cross_above, c.macd_above_signal)
        sell == MaskOr(c.ma_cross_below, c.macd_below_signal)
        s0 == [rows |-> [t \in 1..n |-> "NEUTRAL"], extra |-> << >>]
        s1 == LocSet(s0, strong_buy, "STRONG_BUY")
        s2 == LocSet(s1, strong_sell, "STRONG_SELL")
        s3 == LocSet(s2, MaskAndNot(buy, strong_buy), "BUY")
        s4 == LocSet(s3, MaskAndNot(sell, strong_sell), "SELL")
    IN  s4

\* SignalGenerator.generate_signals
generate_signals(d, en, params) ==
    CombineSignals(Len(d.Close), Conditions(d, en, params))

EmptyTable ==
    [Close |-> << >>, RSI |-> << >>, MA_Short |-> << >>, MA_Long |-> << >>,
     BB_Upper |-> << >>, BB_Lower |-> << >>, MACD |-> << >>, Signal_Line |-> << >>]
NoSignals == [rows |-> << >>, extra |-> << >>]

\* a table that shares the caller's object instead of copying it
DataFrame_alias(ref) ==
    ref
\* DataFrame.copy(): a new object, whatever object it is called on
DataFrame_copy(ref) ==
    "private"

\* df[col] = v
SetColumn(df, col, v) ==
    [c \in DOMAIN df \cup {col} |-> IF c = col THEN v ELSE df[c]]

\* the columns _precompute_indicators assigns for the enabled indicators,
\* and a table after the assignment of the columns cols of d
WrittenColumns(en) ==
    (IF "rsi" \in en THEN {"RSI"} ELSE {})
        \cup (IF "moving_average" \in en THEN {"MA_Short", "MA_Long"} ELSE {})
        \cup (IF "bollinger" \in en THEN {"BB_Upper", "BB_Lower"} ELSE {})
        \cup (IF "macd" \in en THEN {"MACD", "Signal_Line"} ELSE {})
WriteColumns(df, d, cols) ==
    [c \in DOMAIN df \cup cols |-> IF c \in cols THEN d[c] ELSE df[c]]

\* the keys of its parameter group that _precompute_indicators reads for an
\* enabled indicator as params[key], and those generate_signals reads
PrecomputeKeys(ind) ==
    CASE ind = "rsi" -> {"period"}
      [] ind = "moving_average" -> {"short_window", "long_window"}
      [] ind = "bollinger" -> {"window", "std_dev"}
      [] ind = "macd" -> {"fast_period", "slow_period", "signal_period"}
GenerateKeys(ind) ==
    CASE ind = "rsi" -> {"overbought", "oversold"}
      [] OTHER -> {}

\* parameters[ind] or params[key] raises KeyError for an enabled indicator
PrecomputeKeyError(en, params) ==
    \E ind \in en :
        \/ ind \notin DOMAIN params
        \/ \E key \in PrecomputeKeys(ind) : key \notin DOMAIN params[ind]
GenerateKeyError(en, params) ==
    \E ind \in en :
        \/ ind \notin DOMAIN params
        \/ \E key \in GenerateKeys(ind) : key \notin DOMAIN params[ind]

\* SignalGenerator.__init__: a copy of the table, then _precompute_indicators;
\* a KeyError leaves the caller without a generator
NewSignalGenerator ==
    /\ sgpc = "new"
    /\ IF PrecomputeKeyError(enabled, parameters)
       THEN /\ sgpc' = "raised"
            /\ UNCHANGED data
            /\ UNCHANGED ohlc_data
       ELSE /\ data' = precompute_indicators(close, enabled, parameters)
            /\ ohlc_data' = IF DataFrame_copy("caller") = "caller"
                            THEN WriteColumns(ohlc_data, data', WrittenColumns(enabled))
                            ELSE ohlc_data
            /\ sgpc' = "ready"
    /\ UNCHANGED <<close, enabled, parameters, primary, signal_series>>
    /\ UNCHANGED notSg

\* generate_all_signals: 'primary' is generate_signals()
GenerateSignals ==
    /\ sgpc = "ready"
    /\ IF GenerateKeyError(enabled, parameters)
       THEN /\ sgpc' = "raised"
            /\ UNCHANGED primary
       ELSE /\ primary' = generate_signals(data, enabled, parameters)
            /\ sgpc' = "generated"
    /\ UNCHANGED <<close, enabled, parameters, data, signal_series, ohlc_data>>
    /\ UNCHANGED notSg

\* SignalType.simple_name: the three-valued name of a signal type
simple_name(s) ==
    CASE s = "NEUTRAL" -> "NEUTRAL"
      [] s = "BUY" -> "BUY"
      [] s = "SELL" -> "SELL"
      [] s = "STRONG_BUY" -> "BUY"
      [] s = "STRONG_SELL" -> "SELL"

\* a mapping that keeps the strong signal names
signal_mapping_keep_strong ==
    [n \in SignalNames |-> n]
\* the dict signal_mapping of _run_backtest, keyed by the member name
signal_mapping ==
    ("BUY" :> "BUY") @@ ("SELL" :> "SELL") @@ ("STRONG_BUY" :> "BUY")
        @@ ("STRONG_SELL" :> "SELL") @@ ("NEUTRAL" :> "NEUTRAL")

\* the whole 'primary' series: its rows, then the row .loc appended (if any)
PrimarySeries(p) == p.rows \o p.extra

\* _run_backtest up to the Backtester constructor: signals['primary'].iloc[0]
\* raises IndexError on an empty series; otherwise every element x becomes
\* signal_mapping[x.name] and a Backtester is built on data['Close'] and the
\* mapped series (whose index is the table's unless .loc appended a row).
RunBacktest ==
    /\ sgpc = "generated"
    /\ IF Len(PrimarySeries(primary)) = 0
       THEN /\ sgpc' = "backtest_raised"
            /\ UNCHANGED <<signal_series, btVars>>
       ELSE /\ signal_series' = [t \in 1..Len(PrimarySeries(primary)) |->
                                    signal_mapping[PrimarySeries(primary)[t]]]
            /\ sgpc' = "backtest"
            /\ prices' = close
            /\ pricesIndex' = "datetime"
            /\ signals' = signal_series'
            /\ signalsIndex' = IF primary.extra = << >> THEN "same" ELSE "shifted"
            /\ pc' = "start"
            /\ UNCHANGED <<commission, error, i, position, positions, returns, j,
                           tposition, entry_price, entry_date, trades, metrics>>
    /\ UNCHANGED <<close, enabled, parameters, data, primary, ohlc_data>>
    /\ UNCHANGED <<cfgVars, tiVars, plVars, fmVars>>

\* Parameter groups with windows short enough for tables of MaxBars rows; the
\* generator reads them as given (the RSI thresholds are the defaults).
ParametersFor(sw) ==
    [rsi |-> [period |-> 2, overbought |-> 70, oversold |-> 30],
     moving_average |-> [short_window |-> sw, long_window |-> sw + 1],
     bollinger |-> [window |-> 3, std_dev |-> [num |-> 1, den |-> 5]],
     macd |-> [fast_period |-> 2, slow_period |-> 3, signal_period |-> 2]]
ParameterChoices == {ParametersFor(sw) : sw \in {1, 2}}

\* the series of length at most n over the set S
SeqsUpTo(S, n) == UNION {[1..k -> S] : k \in 0..n}

\* no Backtester run
BacktesterIdle ==
    /\ error = "none"
    /\ i = 0
    /\ position = 0
    /\ positions = << >>
    /\ returns = << >>
    /\ j = 0
    /\ tposition = 0
    /\ entry_price = None
    /\ entry_date = None
    /\ trades = << >>
    /\ metrics = "none"

\* no SignalGenerator
GeneratorIdle ==
    /\ data = EmptyTable
    /\ primary = NoSignals
    /\ signal_series = << >>

\* no run_pipeline and no FinancialMetrics
PipelineIdle ==
    /\ tickers = << >>
    /\ ticker_index = 0
    /\ stage = "none"
    /\ results = << >>
    /\ attempted = << >>
    /\ logged = << >>
    /\ plpc = "idle"
MetricsIdle ==
    /\ fm_input = << >>
    /\ fm_returns = << >>
    /\ fm_metrics = << >>
    /\ fmpc = "idle"

\* no TechnicalIndicators
IndicatorsIdle ==
    /\ caller_data = << >>
    /\ ti_enabled = << >>
    /\ ti_parameters = << >>
    /\ ti_data = << >>
    /\ ti_ref = "none"
    /\ ti_k = 0
    /\ tipc = "idle"
    /\ ti_error = "none"

\* a SignalConfig that exists already: nothing to construct
ConfigIdle ==
    /\ not_dict = {}
    /\ group_order = << >>
    /\ cfgpc = "idle"
    /\ cfgerror = "none"

\* a Backtester constructed on any prices, signals and commission rate
Init ==
    /\ prices \in SeqsUpTo(1..MaxPrice, MaxLen)
    /\ pricesIndex \in {"datetime", "range"}
    /\ signals \in SeqsUpTo(SignalNames, MaxLen)
    /\ signalsIndex \in {"same", "shifted", "range"}
    \* an identical index needs equal lengths; two empty datetime indexes are identical
    /\ (signalsIndex = "same" => Len(signals) = Len(prices) /\ pricesIndex = "datetime")
    /\ (Len(signals) = 0 /\ Len(prices) = 0 /\ pricesIndex = "datetime"
            => signalsIndex = "same")
    /\ commission \in 0..MaxCommission
    /\ pc = "start"
    /\ BacktesterIdle
    /\ close = << >> /\ enabled = {} /\ parameters = ParametersFor(1)
    /\ sgpc = "idle"
    /\ GeneratorIdle
    /\ ohlc_data = << >>
    /\ ConfigIdle
    /\ IndicatorsIdle
    /\ PipelineIdle
    /\ MetricsIdle

Next ==
    \/ ValidateInputs
    \/ GeneratePositionsBegin
    \/ PositionStep
    \/ CalculateReturns
    \/ TradeHistoryBegin
    \/ TradeStep
    \/ PerformanceMetrics

Spec == Init /\ [][Next]_vars

\* a SignalGenerator about to be constructed on any Close column and config
InitSG ==
    /\ close \in SeqsUpTo(1..MaxClose, MaxBars)
    /\ enabled \in SUBSET IndicatorNames
    /\ parameters \in ParameterChoices
    /\ sgpc = "new"
    /\ GeneratorIdle
    /\ ohlc_data = [c \in {"Close"} |-> close]
    /\ IndicatorsIdle
    /\ prices = << >> /\ pricesIndex = "datetime"
    /\ signals = << >> /\ signalsIndex = "same"
    /\ commission = 0
    /\ pc = "idle"
    /\ BacktesterIdle
    /\ PipelineIdle
    /\ MetricsIdle
    /\ ConfigIdle

NextSG ==
    \/ NewSignalGenerator
    \/ GenerateSignals
    \/ RunBacktest
    \/ ValidateInputs

SpecSG == InitSG /\ [][NextSG]_vars

(* ---------------------------- SignalConfig ---------------------------- *)
\* dict.get(name, default)
Get(params, name, default) ==
    IF name \in DOMAIN params THEN params[name] ELSE default

\* a range check that excludes the two ends
Between_exclusive(lo, v, hi) ==
    lo < v /\ v < hi
\* lo <= v <= hi on numbers
Between(lo, v, hi) ==
    lo <= v /\ v <= hi

\* lo <= v <= hi for a float v = num / den and bounds given in tenths
BetweenTenths(lo, v, hi) ==
    lo * v.den <= 10 * v.num /\ 10 * v.num <= hi * v.den

\* the signal-specific checks of validate for one parameter group: the
\* message of the first check that fails, or "none"
GroupError(signal_name, params) ==
    CASE signal_name = "rsi" ->
            IF ~Between(10, Get(params, "period", 14), 30)
            THEN "RSI period must be between 10 and 30"
            ELSE IF ~Between(60, Get(params, "overbought", 70), 80)
            THEN "RSI overbought must be between 60 and 80"
            ELSE IF ~Between(20, Get(params, "oversold", 30), 40)
            THEN "RSI oversold must be between 20 and 40"
            ELSE "none"
      [] signal_name = "macd" ->
            IF ~Between(8, Get(params, "fast_period", 12), 26)
            THEN "MACD fast period must be between 8 and 26"
            ELSE IF ~Between(12, Get(params, "slow_period", 26), 50)
            THEN "MACD slow period must be between 12 and 50"
            ELSE IF ~Between(5, Get(params, "signal_period", 9), 20)
            THEN "MACD signal period must be between 5 and 20"
            ELSE "none"
      [] signal_name = "moving_average" ->
            IF ~Between(5, Get(params, "short_window", 20), 50)
            THEN "MA short window must be between 5 and 50"
            ELSE IF ~Between(20, Get(params, "long_window", 50), 200)
            THEN "MA long window must be between 20 and 200"
            ELSE "none"
      [] signal_name = "bollinger" ->
            IF ~Between(10, Get(params, "window", 20), 50)
            THEN "Bollinger window must be between 10 and 50"
            ELSE IF ~BetweenTenths(15, Get(params, "std_dev", [num |-> 2, den |-> 1]), 30)
            THEN "Bollinger std_dev must be between 1.5 and 3.0"
            ELSE "none"
      [] OTHER -> "none"

\* the loop of validate over parameters.items() from the k-th key on
RECURSIVE ValidateGroups(_, _, _, _)
ValidateGroups(nd, order, params, k) ==
    IF k > Len(order) THEN "none"
    ELSE IF order[k] \in nd THEN "Parameters for a group must be a dictionary"
    ELSE LET e == GroupError(order[k], params[order[k]])
         IN  IF e # "none" THEN e ELSE ValidateGroups(nd, order, params, k + 1)

\* a validation that looks only at the groups of enabled indicators
validate_enabled_only(en, nd, order, params) ==
    IF "enabled" \in nd THEN "Enabled signals must be a dictionary"
    ELSE IF "parameters" \in nd THEN "Parameters must be a dictionary"
    ELSE ValidateGroups(nd, SelectSeq(order, LAMBDA g : g \in en), params, 1)
\* SignalConfig.validate: the message of the ValueError it raises, or "none"
validate(en, nd, order, params) ==
    IF "enabled" \in nd THEN "Enabled signals must be a dictionary"
    ELSE IF "parameters" \in nd THEN "Parameters must be a dictionary"
    ELSE ValidateGroups(nd, order, params, 1)

\* SignalConfig(enabled, parameters): __post_init__ runs validate; a raise
\* leaves the caller without an object
NewSignalConfig ==
    /\ cfgpc = "new"
    /\ cfgerror' = validate(enabled, not_dict, group_order, parameters)
    /\ cfgpc' = IF cfgerror' = "none" THEN "constructed" ELSE "raised"
    /\ sgpc' = IF cfgerror' = "none" THEN "new" ELSE sgpc
    /\ UNCHANGED <<not_dict, group_order>>
    /\ UNCHANGED <<close, enabled, parameters, data, primary, signal_series,
                   ohlc_data>>
    /\ UNCHANGED <<btVars, tiVars, plVars, fmVars>>

\* the ten parameters validate knows, as <<group, name>>
ParamKeys ==
    {<<"rsi", "period">>, <<"rsi", "overbought">>, <<"rsi", "oversold">>,
     <<"macd", "fast_period">>, <<"macd", "slow_period">>, <<"macd", "signal_period">>,
     <<"moving_average", "short_window">>, <<"moving_average", "long_window">>,
     <<"bollinger", "window">>, <<"bollinger", "std_dev">>}

\* values around the two ends of a parameter's range: just below, the lower
\* end, the upper end, just above
Around(lo, hi) == <<lo - 1, lo, hi, hi + 1>>
Tenths(q) == [n \in DOMAIN q |-> [num |-> q[n], den |-> 10]]
Supplied(key) ==
    CASE key = <<"rsi", "period">> -> Around(10, 30)
      [] key = <<"rsi", "overbought">> -> Around(60, 80)
      [] key = <<"rsi", "oversold">> -> Around(20, 40)
      [] key = <<"macd", "fast_period">> -> Around(8, 26)
      [] key = <<"macd", "slow_period">> -> Around(12, 50)
      [] key = <<"macd", "signal_period">> -> Around(5, 20)
      [] key = <<"moving_average", "short_window">> -> Around(5, 50)
      [] key = <<"moving_average", "long_window">> -> Around(20, 200)
      [] key = <<"bollinger", "window">> -> Around(10, 50)
      [] key = <<"bollinger", "std_dev">> -> Tenths(Around(15, 30))

\* the parameters dict that supplies the keys S with the values chosen by val
ParametersWith(S, val) ==
    [g \in {key[1] : key \in S} |->
        [n \in {key[2] : key \in {q \in S : q[1] = g}} |->
            Supplied(<<g, n>>)[val[<<g, n>>]]]]

\* the orders in which the keys K of a dict can have been inserted
KeyOrders(K) ==
    {o \in [1..Cardinality(K) -> K] : \A a, b \in DOMAIN o : o[a] = o[b] => a = b}

\* a SignalConfig about to be constructed from any enabled set and from
\* parameters that supply at most MaxSupplied values, then handed with a
\* two-row table to a SignalGenerator
InitCfg ==
    /\ \E S \in SUBSET ParamKeys :
          /\ Cardinality(S) <= MaxSupplied
          /\ \E val \in [S -> 1..4] : parameters = ParametersWith(S, val)
    /\ group_order \in KeyOrders(DOMAIN parameters)
    /\ not_dict \in {{}} \cup
                    (IF Cardinality(DOMAIN parameters) <= 1
                     THEN {{"enabled"}, {"parameters"}}
                              \cup {{g} : g \in DOMAIN parameters}
                     ELSE {})
    /\ enabled \in SUBSET IndicatorNames
    /\ close = <<1, 2>>
    /\ cfgpc = "new"
    /\ cfgerror = "none"
    /\ sgpc = "idle"
    /\ GeneratorIdle
    /\ ohlc_data = [c \in {"Close"} |-> close]
    /\ IndicatorsIdle
    /\ prices = << >> /\ pricesIndex = "datetime"
    /\ signals = << >> /\ signalsIndex = "same"
    /\ commission = 0
    /\ pc = "idle"
    /\ BacktesterIdle
    /\ PipelineIdle
    /\ MetricsIdle

NextCfg ==
    \/ NewSignalConfig
    \/ NewSignalGenerator
    \/ GenerateSignals

SpecCfg == InitCfg /\ [][NextCfg]_vars

(* ------------------------- TechnicalIndicators ------------------------- *)
\* a class that also has a method for the name moving_average
KnownIndicators_with_moving_average ==
    {"rsi", "moving_averages", "bollinger_bands", "macd", "moving_average"}
\* the names n for which hasattr(self, '_calculate_' + n) holds
KnownIndicators ==
    {"rsi", "moving_averages", "bollinger_bands", "macd"}

\* the keys of config.parameters[n] that _calculate_n reads
CalculateKeys(n) ==
    CASE n = "rsi" -> {"period"}
      [] n = "moving_averages" -> {"short_window", "long_window"}
      [] n = "bollinger_bands" -> {"window", "std_dev"}
      [] n = "macd" -> {"fast_period", "slow_period", "signal_period"}
CalculateKeyError(n, params) ==
    \/ n \notin DOMAIN params
    \/ \E key \in CalculateKeys(n) : key \notin DOMAIN params[n]

\* the table after _calculate_n
Calculate(n, df, params) ==
    LET c == df["Close"]
        q == params[n]
    IN  CASE n = "rsi" -> SetColumn(df, "RSI", RSIColumn(c, q.period))
          [] n = "moving_averages" ->
                SetColumn(SetColumn(df, "MA_Short", rolling_mean(c, q.short_window)),
                          "MA_Long", rolling_mean(c, q.long_window))
          [] n = "bollinger_bands" ->
                LET band == [t \in 1..Len(c) |->
                                Band(rolling_mean(c, q.window)[t],
                                     rolling_var(c, q.window)[t], q.std_dev)]
                IN  SetColumn(SetColumn(df, "BB_Upper", band), "BB_Lower", band)
          [] n = "macd" ->
                LET mc == MACDColumns(c, q.fast_period, q.slow_period, q.signal_period)
                IN  SetColumn(SetColumn(df, "MACD", mc.MACD),
                              "Signal_Line", mc.Signal_Line)

\* TechnicalIndicators.__init__: self.data = data.copy()
NewTechnicalIndicators ==
    /\ tipc = "new"
    /\ ti_ref' = DataFrame_copy("caller")
    /\ ti_data' = caller_data
    /\ ti_k' = 1
    /\ tipc' = "loop"
    /\ UNCHANGED <<caller_data, ti_enabled, ti_parameters, ti_error>>
    /\ UNCHANGED <<btVars, sgVars, cfgVars, plVars, fmVars>>

\* one pass of the loop of calculate_enabled_indicators: a false flag is
\* skipped; a name with a method is calculated on self.data (KeyError when
\* its parameters are missing); a name without one raises ValueError
CalculateStep ==
    /\ tipc = "loop"
    /\ ti_k <= Len(ti_enabled)
    /\ LET indicator == ti_enabled[ti_k].indicator
       IN  IF ~ti_enabled[ti_k].enabled
           THEN /\ ti_k' = ti_k + 1
                /\ UNCHANGED <<ti_data, caller_data, tipc, ti_error>>
           ELSE IF indicator \notin KnownIndicators
           THEN /\ tipc' = "raised"
                /\ ti_error' = "ValueError: No calculation method"
                /\ UNCHANGED <<ti_data, caller_data, ti_k>>
           ELSE IF CalculateKeyError(indicator, ti_parameters)
           THEN /\ tipc' = "raised"
                /\ ti_error' = "KeyError"
                /\ UNCHANGED <<ti_data, caller_data, ti_k>>
           ELSE /\ ti_data' = Calculate(indicator, ti_data, ti_parameters)
                /\ caller_data' = IF ti_ref = "caller" THEN ti_data' ELSE caller_data
                /\ ti_k' = ti_k + 1
                /\ UNCHANGED <<tipc, ti_error>>
    /\ UNCHANGED <<ti_enabled, ti_parameters, ti_ref>>
    /\ UNCHANGED <<btVars, sgVars, cfgVars, plVars, fmVars>>

\* return self.data; _generate_signals gives the returned table to a
\* SignalGenerator
ReturnData ==
    /\ tipc = "loop"
    /\ ti_k > Len(ti_enabled)
    /\ tipc' = "returned"
    /\ ohlc_data' = ti_data
    /\ close' = ti_data["Close"]
    /\ sgpc' = "new"
    /\ UNCHANGED <<enabled, parameters, data, primary, signal_series>>
    /\ UNCHANGED <<caller_data, ti_enabled, ti_parameters, ti_data, ti_ref, ti_k,
                   ti_error>>
    /\ UNCHANGED <<btVars, cfgVars, plVars, fmVars>>

\* the names an IndicatorConfig may enable or disable: the four with a
\* method and one without (the SignalGenerator's name for the moving averages)
ConfigNames == KnownIndicators \cup {"moving_average"}
EnabledDicts ==
    {o \in SeqsUpTo([indicator : ConfigNames, enabled : BOOLEAN], MaxIndicators) :
        \A a, b \in DOMAIN o : o[a].indicator = o[b].indicator => a = b}

\* parameters for every method, with windows short enough for MaxRows rows
IndicatorParameters ==
    [rsi |-> [period |-> 2],
     moving_averages |-> [short_window |-> 1, long_window |-> 2],
     bollinger_bands |-> [window |-> 2, std_dev |-> [num |-> 2, den |-> 1]],
     macd |-> [fast_period |-> 2, slow_period |-> 3, signal_period |-> 2]]
Without(params, g) == [n \in DOMAIN params \ {g} |-> params[n]]

\* a TechnicalIndicators about to be constructed on any Close column and any
\* IndicatorConfig, its result going to a SignalGenerator
InitTI ==
    /\ \E c \in SeqsUpTo(1..2, MaxRows) : caller_data = [n \in {"Close"} |-> c]
    /\ ti_enabled \in EnabledDicts
    /\ ti_parameters \in {IndicatorParameters, Without(IndicatorParameters, "macd")}
    /\ ti_data = << >>
    /\ ti_ref = "none"
    /\ ti_k = 0
    /\ tipc = "new"
    /\ ti_error = "none"
    /\ close = << >>
    /\ enabled \in {{}, {"moving_average", "macd"}}
    /\ parameters = ParametersFor(1)
    /\ sgpc = "idle"
    /\ GeneratorIdle
    /\ ohlc_data = << >>
    /\ ConfigIdle
    /\ prices = << >> /\ pricesIndex = "datetime"
    /\ signals = << >> /\ signalsIndex = "same"
    /\ commission = 0
    /\ pc = "idle"
    /\ BacktesterIdle
    /\ PipelineIdle
    /\ MetricsIdle

NextTI ==
    \/ NewTechnicalIndicators
    \/ CalculateStep
    \/ ReturnData
    \/ NewSignalGenerator
    \/ GenerateSignals

SpecTI == InitTI /\ [][NextTI]_vars

(* ----------------------------- run_pipeline --------------------------- *)
\* the seven stages of one ticker, in the order run_pipeline calls them
Stages ==
    <<"load", "process", "indicators", "signals", "metrics", "backtest", "visualize">>
StageAfter(st) ==
    CHOOSE nx \in {Stages[n] : n \in DOMAIN Stages} \cup {"none"} :
        \E n \in DOMAIN Stages :
            /\ Stages[n] = st
            /\ nx = IF n = Len(Stages) THEN "none" ELSE Stages[n + 1]

\* what a stage can do: return, or raise one of the exceptions of the code
Outcomes == {"ok", "ValueError", "KeyError"}
\* 'except Exception' catches every one of them
ExceptException(e) == e \in {"ValueError", "KeyError", "FileNotFoundError"}

\* a handler that leaves the loop after a failure
AfterFailure_break(k, n) ==
    n + 1
\* 'continue': the loop goes on with the ticker after index k of n
AfterFailure(k, n) ==
    k + 1

\* the value stored for a ticker whose seven stages all returned
TickerResult ==
    [data |-> "tech_data", signals |-> "signals", metrics |-> "metrics",
     backtest |-> "backtest_results"]

\* for ticker in self.args.tickers: the next iteration begins
BeginTicker ==
    /\ plpc = "loop"
    /\ stage = "none"
    /\ ticker_index <= Len(tickers)
    /\ attempted' = Append(attempted, tickers[ticker_index])
    /\ stage' = Stages[1]
    /\ UNCHANGED <<tickers, ticker_index, results, logged, plpc>>
    /\ UNCHANGED <<btVars, sgVars, cfgVars, tiVars, fmVars>>

\* one stage of the current ticker: it returns and the next one follows (the
\* result is stored after the last), or it raises and the handler logs the
\* failure and continues with the next ticker
RunStage ==
    /\ plpc = "loop"
    /\ stage # "none"
    /\ \E outcome \in Outcomes :
          IF outcome = "ok"
          THEN /\ stage' = StageAfter(stage)
               /\ IF stage' = "none"
                  THEN /\ results' = [t \in DOMAIN results \cup {tickers[ticker_index]} |->
                                         IF t = tickers[ticker_index] THEN TickerResult
                                         ELSE results[t]]
                       /\ ticker_index' = ticker_index + 1
                  ELSE UNCHANGED <<results, ticker_index>>
               /\ UNCHANGED <<logged, plpc>>
          ELSE IF ExceptException(outcome)
          THEN /\ logged' = Append(logged, [index |-> ticker_index, stage |-> stage,
                                            exception |-> outcome])
               /\ stage' = "none"
               /\ ticker_index' = AfterFailure(ticker_index, Len(tickers))
               /\ UNCHANGED <<results, plpc>>
          ELSE /\ plpc' = "raised"
               /\ UNCHANGED <<stage, ticker_index, results, logged>>
    /\ UNCHANGED <<tickers, attempted>>
    /\ UNCHANGED <<btVars, sgVars, cfgVars, tiVars, fmVars>>

\* return results
ReturnResults ==
    /\ plpc = "loop"
    /\ stage = "none"
    /\ ticker_index > Len(tickers)
    /\ plpc' = "returned"
    /\ UNCHANGED <<tickers, ticker_index, stage, results, attempted, logged>>
    /\ UNCHANGED <<btVars, sgVars, cfgVars, tiVars, fmVars>>

\* run_pipeline called with any list of at most MaxTickers tickers
InitPL ==
    /\ tickers \in SeqsUpTo({"AAPL", "MSFT"}, MaxTickers)
    /\ ticker_index = 1
    /\ stage = "none"
    /\ results = << >>
    /\ attempted = << >>
    /\ logged = << >>
    /\ plpc = "loop"
    /\ MetricsIdle
    /\ close = << >> /\ enabled = {} /\ parameters = ParametersFor(1)
    /\ sgpc = "idle"
    /\ GeneratorIdle
    /\ ohlc_data = << >>
    /\ ConfigIdle
    /\ IndicatorsIdle
    /\ prices = << >> /\ pricesIndex = "datetime"
    /\ signals = << >> /\ signalsIndex = "same"
    /\ commission = 0
    /\ pc = "idle"
    /\ BacktesterIdle

NextPL ==
    \/ BeginTicker
    \/ RunStage
    \/ ReturnResults

\* the loop is sequential code: it always takes its next step
SpecPL == InitPL /\ [][NextPL]_vars /\ WF_vars(NextPL)

(* --------------------------- FinancialMetrics -------------------------- *)
\* +inf (np.inf), and x + y, x / y on floats that are not NaN
Inf == [nan |-> FALSE, num |-> 1, den |-> 0]
RatAdd(x, y) ==
    IF x.den = y.den THEN Rat(x.num + y.num, x.den)
    ELSE Rat(x.num * y.den + y.num * x.den, x.den * y.den)
RatDiv(x, y) ==
    IF y.num < 0 THEN Rat(-(x.num * y.den), -(x.den * y.num))
    ELSE Rat(x.num * y.den, x.den * y.num)
Zero == Rat(0, 1)
One == Rat(1, 1)

\* the last date of a non-empty set of dates
LastOf(D) == CHOOSE u \in D : \A v \in D : v <= u

\* Series.sum() and Series.prod() of the rows D of r (0 and 1 when empty)
RECURSIVE SeriesSum(_, _)
SeriesSum(r, D) ==
    IF D = {} THEN Zero
    ELSE IF D = {LastOf(D)} THEN r[LastOf(D)]
    ELSE RatAdd(SeriesSum(r, D \ {LastOf(D)}), r[LastOf(D)])
RECURSIVE SeriesProd(_, _)
SeriesProd(r, D) ==
    IF D = {} THEN One
    ELSE RatMul(SeriesProd(r, D \ {LastOf(D)}), r[LastOf(D)])

\* total_return: (1 + returns).prod() - 1
total_return(r) ==
    RatSub(SeriesProd([t \in DOMAIN r |-> RatAdd(One, r[t])], DOMAIN r), One)

\* a win rate that counts a zero return as a win
win_rate_nonnegative(r) ==
    IF DOMAIN r = {} THEN NaN
    ELSE Rat(Cardinality({t \in DOMAIN r : Ge(r[t], Zero)}), Cardinality(DOMAIN r))
\* win_rate: (returns > 0).mean(), NaN for an empty series
win_rate(r) ==
    IF DOMAIN r = {} THEN NaN
    ELSE Rat(Cardinality({t \in DOMAIN r : Gt(r[t], Zero)}), Cardinality(DOMAIN r))

\* profit_factor: gross profits / gross losses, np.inf when the losses are 0
profit_factor(r) ==
    LET gross_profits == SeriesSum(r, {t \in DOMAIN r : Gt(r[t], Zero)})
        losses == SeriesSum(r, {t \in DOMAIN r : Lt(r[t], Zero)})
        gross_losses == Rat(Abs(losses.num), losses.den)
    IN  IF gross_losses.num = 0 THEN Inf ELSE RatDiv(gross_profits, gross_losses)

\* the values of the rows D of a series, in date order
RECURSIVE Values(_, _)
Values(r, D) ==
    IF D = {} THEN << >>
    ELSE Append(Values(r, D \ {LastOf(D)}), r[LastOf(D)])

\* a / b < c / d for a, c >= 0 and b, d > 0: by the integer parts, then by
\* the inverted remainders (exact, and without a product of the four)
RECURSIVE FracLess(_, _, _, _)
FracLess(a, b, c, d) ==
    IF a \div b # c \div d THEN a \div b < c \div d
    ELSE IF c % d = 0 THEN FALSE
    ELSE IF a % b = 0 THEN TRUE
    ELSE FracLess(d, c % d, b, a % b)

\* abs(x) on a float
FloatAbs(x) ==
    IF x.nan THEN NaN ELSE Rat(Abs(x.num), Abs(x.den))

\* Series.mean(): NaN for an empty series
mean(r) ==
    IF DOMAIN r = {} THEN NaN
    ELSE LET S == SeriesSum(r, DOMAIN r)
         IN  Rat(S.num, S.den * Cardinality(DOMAIN r))

\* (1 + self.returns).cumprod() for returns x[t] = p[t] / d over one
\* denominator d: the numerators of the cumulative products over d^Len(x)
RECURSIVE CumProdTo(_, _)
CumProdTo(x, t) ==
    IF t = 0 THEN 1 ELSE CumProdTo(x, t - 1) * (x[t].den + x[t].num)
cumprod(x) ==
    [t \in 1..Len(x) |-> CumProdTo(x, t) * Pow(x[1].den, Len(x) - t)]

\* cumulative.expanding(min_periods=1).max()
expanding_max(c) ==
    [t \in 1..Len(c) |->
        CHOOSE m \in {c[u] : u \in 1..t} : \A u \in 1..t : c[u] <= m]

\* a drawdown that measures each row against the first one, not the peak
max_drawdown_from_start(r) ==
    LET cumulative == cumprod(Values(r, DOMAIN r))
        rows == DOMAIN cumulative
        low == CHOOSE t \in rows : \A u \in rows : cumulative[t] <= cumulative[u]
    IN  IF DOMAIN r = {} THEN NaN
        ELSE Rat(cumulative[low] - cumulative[1], cumulative[1])
\* max_drawdown: the least (cumulative - peak) / peak, NaN for an empty series
max_drawdown(r) ==
    LET cumulative == cumprod(Values(r, DOMAIN r))
        peak == expanding_max(cumulative)
        rows == DOMAIN cumulative
        low == CHOOSE t \in rows :
                  \A u \in rows :
                     ~FracLess(cumulative[u], peak[u], cumulative[t], peak[t])
    IN  IF DOMAIN r = {} THEN NaN
        ELSE Rat(cumulative[low] - peak[low], peak[low])

\* annualized_return: (1 + mean) ** 252 - 1, kept as its base and exponent
annualized_return(r) ==
    [nan |-> mean(r).nan,
     growth |-> IF mean(r).nan THEN NaN ELSE RatAdd(One, mean(r)),
     periods |-> 252]

\* calmar_ratio: np.nan when abs(max_drawdown) == 0, else the quotient
\* annualized_return / max_dd (NaN when an operand is), kept as its operands
calmar_ratio(r) ==
    LET max_dd == FloatAbs(max_drawdown(r))
        annual == annualized_return(r)
    IN  [nan |-> IF ~max_dd.nan /\ max_dd.num = 0 THEN TRUE
                 ELSE annual.nan \/ max_dd.nan,
         annualized_return |-> annual,
         max_dd |-> max_dd]

\* the sum over the rows D of (n * p - S)^k, where the returns are p / d over
\* one denominator d, n is the number of rows and S the sum of the p: the
\* k-th central moment sum, times (n * d)^k
RECURSIVE IntPow(_, _)
IntPow(b, e) ==
    IF e = 0 THEN 1 ELSE b * IntPow(b, e - 1)
RECURSIVE MomentOver(_, _, _, _, _)
MomentOver(r, D, n, S, k) ==
    IF D = {} THEN 0
    ELSE IntPow(n * r[LastOf(D)].num - S, k) + MomentOver(r, D \ {LastOf(D)}, n, S, k)
Moment(r, D, k) ==
    MomentOver(r, D, Cardinality(D), SeriesSum(r, D).num, k)

\* the square of Series.std() (ddof = 1) of the rows D: NaN below two rows
variance(r, D) ==
    LET n == Cardinality(D)
        d == r[LastOf(D)].den
    IN  IF n < 2 THEN NaN ELSE Rat(Moment(r, D, 2), n * n * (n - 1) * d * d)

\* annualized_volatility: std * sqrt(252), kept as the variance and the periods
annualized_volatility(r) ==
    [nan |-> variance(r, DOMAIN r).nan,
     variance |-> variance(r, DOMAIN r),
     periods |-> 252]

\* the mean of self.returns - risk_free_rate / 252 with the rate 0.02
excess_mean(r) ==
    IF mean(r).nan THEN NaN ELSE RatSub(mean(r), Rat(2, 100 * 252))

\* m / sqrt(v) * sqrt(252) on numpy floats, kept as its operands: NaN when an
\* operand is NaN or for 0 / 0, and +-inf when only the divisor is 0
MeanOverStd(m, v) ==
    [nan |-> m.nan \/ v.nan \/ (v.num = 0 /\ m.num = 0),
     mean |-> m,
     variance |-> v,
     periods |-> 252]

\* sharpe_ratio: excess mean / excess std * sqrt(252); the std of the excess
\* returns is that of the returns
sharpe_ratio(r) ==
    MeanOverStd(excess_mean(r), variance(r, DOMAIN r))

\* sortino_ratio: np.nan without a negative return, else the excess mean
\* over the std of the negative returns
sortino_ratio(r) ==
    LET downside_returns == {t \in DOMAIN r : Lt(r[t], Zero)}
    IN  IF downside_returns = {}
        THEN [nan |-> TRUE, mean |-> excess_mean(r), variance |-> NaN, periods |-> 252]
        ELSE MeanOverStd(excess_mean(r), variance(r, downside_returns))

\* Series.skew() and Series.kurtosis(), kept as the count and the moment
\* sums: NaN below three (four) rows, 0 when the second moment is 0
skewness(r) ==
    [nan |-> Cardinality(DOMAIN r) < 3,
     zero |-> Moment(r, DOMAIN r, 2) = 0,
     count |-> Cardinality(DOMAIN r),
     m2 |-> Moment(r, DOMAIN r, 2),
     m |-> Moment(r, DOMAIN r, 3)]
kurtosis(r) ==
    [nan |-> Cardinality(DOMAIN r) < 4,
     zero |-> Moment(r, DOMAIN r, 2) = 0,
     count |-> Cardinality(DOMAIN r),
     m2 |-> Moment(r, DOMAIN r, 2),
     m |-> Moment(r, DOMAIN r, 4)]

\* a division that raises ZeroDivisionError, as that of Python floats does
DivideRaises_python_float(divisor) ==
    ~divisor.nan /\ divisor.num = 0
\* x / divisor on numpy float64 values: a zero divisor gives inf or nan with
\* a RuntimeWarning and raises nothing
DivideRaises(divisor) ==
    FALSE

\* the divisions calculate_all performs: sharpe_ratio by the std, sortino_ratio
\* by the std of the negative returns when there is one, calmar_ratio by a
\* max_dd that is not 0, profit_factor by gross losses that are not 0
CalculateAllRaises(r) ==
    LET downside_returns == {t \in DOMAIN r : Lt(r[t], Zero)}
        max_dd == FloatAbs(max_drawdown(r))
    IN  \/ DivideRaises(variance(r, DOMAIN r))
        \/ downside_returns # {} /\ DivideRaises(variance(r, downside_returns))
        \/ ~(~max_dd.nan /\ max_dd.num = 0) /\ DivideRaises(max_dd)
        \/ downside_returns # {} /\ DivideRaises(SeriesSum(r, downside_returns))

\* FinancialMetrics.__init__: self.returns = returns.dropna()
NewFinancialMetrics ==
    /\ fmpc = "new"
    /\ fm_returns' = dropna(fm_input)
    /\ fmpc' = "constructed"
    /\ UNCHANGED <<fm_input, fm_metrics>>
    /\ UNCHANGED <<btVars, sgVars, cfgVars, tiVars, plVars>>

\* calculate_all: the dict of the eleven metrics, each computed from
\* self.returns alone; an exception in one of them leaves the caller without
\* a dict
CalculateAll ==
    /\ fmpc = "constructed"
    /\ IF CalculateAllRaises(fm_returns)
       THEN /\ fmpc' = "raised"
            /\ UNCHANGED fm_metrics
       ELSE /\ fm_metrics' = [total_return |-> total_return(fm_returns),
                              annualized_return |-> annualized_return(fm_returns),
                              annualized_volatility |-> annualized_volatility(fm_returns),
                              sharpe_ratio |-> sharpe_ratio(fm_returns),
                              sortino_ratio |-> sortino_ratio(fm_returns),
                              max_drawdown |-> max_drawdown(fm_returns),
                              calmar_ratio |-> calmar_ratio(fm_returns),
                              win_rate |-> win_rate(fm_returns),
                              profit_factor |-> profit_factor(fm_returns),
                              skewness |-> skewness(fm_returns),
                              kurtosis |-> kurtosis(fm_returns)]
            /\ fmpc' = "calculated"
    /\ UNCHANGED <<fm_input, fm_returns>>
    /\ UNCHANGED <<btVars, sgVars, cfgVars, tiVars, plVars>>

\* returns of -20% .. 20% in steps of 10%, or NaN; and the series
\* 0.01, -0.01, 0.02, -0.02
ReturnValues == {Rat(n, 10) : n \in -2..2} \cup {NaN}
ExampleReturns == <<Rat(1, 100), Rat(-1, 100), Rat(2, 100), Rat(-2, 100)>>

\* a FinancialMetrics about to be constructed on any return series
InitFM ==
    /\ fm_input \in SeqsUpTo(ReturnValues, MaxReturns) \cup {ExampleReturns}
    /\ fm_returns = << >>
    /\ fm_metrics = << >>
    /\ fmpc = "new"
    /\ PipelineIdle
    /\ close = << >> /\ enabled = {} /\ parameters = ParametersFor(1)
    /\ sgpc = "idle"
    /\ GeneratorIdle
    /\ ohlc_data = << >>
    /\ ConfigIdle
    /\ IndicatorsIdle
    /\ prices = << >> /\ pricesIndex = "datetime"
    /\ signals = << >> /\ signalsIndex = "same"
    /\ commission = 0
    /\ pc = "idle"
    /\ BacktesterIdle

NextFM ==
    \/ NewFinancialMetrics
    \/ CalculateAll

SpecFM == InitFM /\ [][NextFM]_vars

(* ====================== properties of the Backtester ================== *)
\* the position before row t, FLAT before the first row
PrevPosition(t) == IF t = 1 THEN 0 ELSE positions[t-1]

\* the rows at which the position series changes value
ChangeDates == {t \in 1..Len(positions) : positions[t] # PrevPosition(t)}

\* the row at which the position held before row t was entered
EnteredAt(t) ==
    CHOOSE e \in ChangeDates : e < t /\ \A u \in ChangeDates : u < t => u <= e

PositionsStarted ==
    pc \in {"positions_loop", "generate_trade_history", "trades_loop", "done"}
ReturnsComputed == pc \in {"generate_trade_history", "trades_loop", "done"}
TradesStarted == pc \in {"trades_loop", "done"}
InvalidInputs ==
    \/ Len(prices) # Len(signals)
    \/ pricesIndex # "datetime"
    \/ \E k \in 1..Len(signals) : signals[k] \notin {"BUY", "SELL", "NEUTRAL"}

\* the price return of row t times the position held over (t-1, t)
GrossReturn(t) == Rat(positions[t-1] * (prices[t] - prices[t-1]), prices[t-1])

\* C1: from FLAT, the position recorded at each processed row is +1 on BUY
\* with the previous position <= 0, -1 on SELL with the previous position
\* >= 0 and the previous position otherwise; it is always in {-1, 0, +1}
\* and the position series has one entry per price timestamp.
C1_PositionRule ==
    PositionsStarted =>
        /\ Len(positions) = Len(prices)
        /\ \A t \in 1..Len(positions) : positions[t] \in {-1, 0, 1}
        /\ \A t \in 1..(i - 1) :
              positions[t] =
                 IF signals[t] = "BUY" /\ PrevPosition(t) <= 0 THEN 1
                 ELSE IF signals[t] = "SELL" /\ PrevPosition(t) >= 0 THEN -1
                 ELSE PrevPosition(t)

C1_Witness ==
    /\ pc = "done"
    /\ \E t, u, v \in 1..Len(positions) :
          /\ t < u /\ u < v
          /\ signals[t] = "BUY" /\ positions[t] = 1
          /\ signals[u] = "BUY" /\ positions[u] = 1
          /\ signals[v] = "SELL" /\ positions[v] = -1

\* C2: with commission 0 the strategy return of every row t after the first
\* is the position of row t-1 times (price[t] - price[t-1]) / price[t-1]; a
\* position change made at t does not enter the return of t.
C2_NoSameBarFill ==
    (ReturnsComputed /\ commission = 0) =>
        \A t \in 2..Len(prices) :
            /\ t \in DOMAIN returns
            /\ RatEq(returns[t], GrossReturn(t))

C2_Witness ==
    /\ pc = "done"
    /\ commission = 0
    /\ \E t \in 2..Len(prices) :
          /\ positions[t] # positions[t-1]
          /\ positions[t-1] # 0
          /\ prices[t] # prices[t-1]
          /\ RatEq(returns[t], GrossReturn(t))

\* C3: at every row where the position differs from the one before it (FLAT
\* before the first row) the returns series has an entry and the entry is the
\* gross return less |position change| x commission rate; rows with no
\* position change are charged nothing.
C3_CommissionOnEveryChange ==
    ReturnsComputed =>
        \A t \in 1..Len(positions) :
            IF positions[t] # PrevPosition(t)
            THEN /\ t \in DOMAIN returns
                 /\ t > 1 =>
                      RatEq(returns[t],
                            RatSub(GrossReturn(t),
                                   Rat(Abs(positions[t] - PrevPosition(t)) * commission,
                                       CommissionScale)))
            ELSE t \in DOMAIN returns => RatEq(returns[t], GrossReturn(t))

\* C4: at every scanned row where the position changes exactly one Trade is
\* appended iff the prior position was non-flat; it records the prior
\* position's sign, the date and price at which that position was entered,
\* the date and price of the change as exit and the signed return, which the
\* signed-return formula reproduces from the row's own prices; a non-flat new
\* position opens a new entry at that row.  No other row appends a Trade.
C4_TradeLedger ==
    TradesStarted =>
        /\ \A t \in 1..(j - 1) :
              LET closing == {k \in 1..Len(trades) : trades[k].exit_date = t}
              IN  IF t \in ChangeDates /\ PrevPosition(t) # 0
                  THEN /\ Cardinality(closing) = 1
                       /\ \A k \in closing :
                             /\ trades[k].position = PrevPosition(t)
                             /\ trades[k].entry_date = EnteredAt(t)
                             /\ trades[k].entry_price = prices[EnteredAt(t)]
                             /\ trades[k].exit_price = prices[t]
                  ELSE closing = {}
        /\ \A k \in 1..Len(trades) :
              RatEq(trades[k].return,
                    Rat(trades[k].position * (trades[k].exit_price - trades[k].entry_price),
                        trades[k].entry_price))
        /\ (j > 1 /\ positions[j-1] # 0) =>
              /\ entry_date = EnteredAt(j)
              /\ entry_price = prices[entry_date]

C4_Witness ==
    /\ pc = "done"
    /\ Len(trades) >= 2
    /\ \E k \in 1..Len(trades) :
          trades[k].position = -1 /\ trades[k].return.num # 0

\* C5: once LONG, further BUY signals with no SELL in between leave the
\* position LONG at each of those rows and append no Trade; symmetrically for
\* repeated SELL while SHORT.
C5_SameDirectionIdempotent ==
    PositionsStarted =>
        \A s \in 1..(i - 1) : \A t \in (s + 1)..(i - 1) :
            \A side \in {"BUY", "SELL"} :
                LET held == IF side = "BUY" THEN 1 ELSE -1
                IN  (positions[s] = held /\ \A u \in (s + 1)..t : signals[u] = side)
                    => \A u \in (s + 1)..t :
                          /\ positions[u] = held
                          /\ pc = "done" =>
                               \A k \in 1..Len(trades) :
                                  trades[k].exit_date # u /\ trades[k].entry_date # u

C5_Witness ==
    /\ pc = "done"
    /\ \E s \in 1..Len(signals) :
          /\ s + 2 <= Len(signals)
          /\ positions[s] = 1
          /\ signals[s+1] = "BUY" /\ signals[s+2] = "BUY"
          /\ positions[s+2] = 1
          /\ trades = << >>

AllNeutral == \A t \in 1..Len(signals) : signals[t] = "NEUTRAL"

\* C6: if every signal is NEUTRAL then, for any prices and commission rate,
\* every position is 0, every strategy return is 0 and the ledger is empty.
C6_NeutralIdentity ==
    (AllNeutral /\ PositionsStarted) =>
        /\ \A t \in 1..(i - 1) : positions[t] = 0
        /\ ReturnsComputed => \A t \in DOMAIN returns : RatEq(returns[t], Rat(0, 1))
        /\ trades = << >>

C6_Witness ==
    /\ pc = "done"
    /\ AllNeutral
    /\ Len(signals) >= 3
    /\ commission > 0
    /\ \E t \in DOMAIN returns : prices[t] # prices[t-1]

\* C7: if prices and signals differ in length, or the price index is not a
\* datetime index, or a signal lies outside {BUY, SELL, NEUTRAL}, run raises
\* a validation error and computes no positions, returns, trades or metrics.
C7_ValidateFirst ==
    InvalidInputs =>
        /\ pc \in {"start", "raised"}
        /\ pc = "raised" => error # "none"
        /\ positions = << >> /\ returns = << >> /\ trades = << >>
        /\ metrics = "none"

C7_Witness ==
    /\ pc = "raised"
    /\ error = "vocabulary"
    /\ Len(prices) = Len(signals)
    /\ \E k \in 1..Len(signals) : signals[k] = "STRONG_SELL"
    /\ metrics = "none"

\* C8: if prices and signals have the same length but not an identical
\* datetime index, run raises a validation error before any computation.
C8_IndexMismatchRaises ==
    (Len(prices) = Len(signals) /\ signalsIndex # "same") =>
        /\ pc \in {"start", "raised"}
        /\ pc = "raised" => error # "none"

\* the processed rows at which the position changes, after the first of them
LaterChanges ==
    {t \in ChangeDates : t < i /\ \E u \in ChangeDates : u < t}

\* C23: among the processed rows, a row after a LONG or SHORT row is never
\* FLAT; every position change after the first is a flip between LONG and
\* SHORT, of magnitude 2; and the position of a row is 0 iff no BUY or SELL
\* signal occurs up to and including that row.
C23_FlatOnlyInitially ==
    PositionsStarted =>
        /\ \A s \in 1..(i - 1) : \A t \in (s + 1)..(i - 1) :
              positions[s] # 0 => positions[t] # 0
        /\ \A t \in LaterChanges :
              /\ Abs(positions[t] - positions[t-1]) = 2
              /\ positions[t] = -positions[t-1]
        /\ \A t \in 1..(i - 1) :
              positions[t] = 0 <=> \A u \in 1..t : signals[u] \notin {"BUY", "SELL"}

\* FLAT, then SHORT, then a flip to LONG that lasts through a NEUTRAL row
C23_Witness ==
    /\ pc = "done"
    /\ Len(positions) = 4
    /\ signals = <<"NEUTRAL", "SELL", "BUY", "NEUTRAL">>
    /\ positions = <<0, -1, 1, 1>>
    /\ LaterChanges = {3}

\* the position changes among the rows the ledger scan has passed
ScannedChanges == {t \in ChangeDates : t < j}

\* C24: the ledger lists its trades in chronological order, each with its
\* exit date strictly after its entry date and a duration >= 0; each trade's
\* exit date and price are the next trade's entry date and price and the
\* position sign alternates from one trade to the next; the number of trades
\* is the number of position changes minus one, or zero when the position
\* never changes, and no trade is entered at the last position change.
C24_LedgerShape ==
    TradesStarted =>
        /\ \A k \in 1..Len(trades) :
              /\ trades[k].exit_date > trades[k].entry_date
              /\ trades[k].duration >= 0
              /\ trades[k].duration = trades[k].exit_date - trades[k].entry_date
              /\ trades[k].position \in {-1, 1}
        /\ \A k \in 1..(Len(trades) - 1) :
              /\ trades[k].entry_date < trades[k+1].entry_date
              /\ trades[k].exit_date = trades[k+1].entry_date
              /\ trades[k].exit_price = trades[k+1].entry_price
              /\ trades[k].position = -trades[k+1].position
        /\ Len(trades) =
              IF ScannedChanges = {} THEN 0 ELSE Cardinality(ScannedChanges) - 1
        /\ \A t \in ScannedChanges :
              (\A u \in ScannedChanges : u <= t) =>
                  \A k \in 1..Len(trades) : trades[k].entry_date # t

\* three position changes give two contiguous trades of opposite sign; the
\* LONG position entered at the last row is in no trade
C24_Witness ==
    /\ pc = "done"
    /\ positions = <<0, 1, -1, 1>>
    /\ ChangeDates = {2, 3, 4}
    /\ Len(trades) = 2
    /\ trades[1].exit_date = 3 /\ trades[2].entry_date = 3
    /\ trades[1].position = 1 /\ trades[2].position = -1

(* =================== properties of the SignalGenerator ================ *)
\* the value of a condition at row t (the scalar False is false everywhere)
CondAt(m, t) == IF m.scalar THEN FALSE ELSE m.v[t]

\* the conditions of the table the generator holds
Cond == Conditions(data, enabled, parameters)
MaUp(t) == CondAt(Cond.ma_cross_above, t)
MaDown(t) == CondAt(Cond.ma_cross_below, t)
MacdUp(t) == CondAt(Cond.macd_above_signal, t)
MacdDown(t) == CondAt(Cond.macd_below_signal, t)
StrongBuyAt(t) ==
    /\ MaUp(t) /\ CondAt(Cond.rsi_oversold, t)
    /\ CondAt(Cond.price_below_bb_lower, t) /\ MacdUp(t)
StrongSellAt(t) ==
    /\ MaDown(t) /\ CondAt(Cond.rsi_overbought, t)
    /\ CondAt(Cond.price_above_bb_upper, t) /\ MacdDown(t)

Generated == sgpc = "generated"
Rows == DOMAIN primary.rows

\* C9: at every timestamp the signal is the first rule that matches in the
\* order STRONG_BUY, STRONG_SELL, BUY (ma_cross_up or macd_cross_up), SELL
\* (ma_cross_down or macd_cross_down), NEUTRAL, also when a buy-side and a
\* sell-side crossover occur together.
C9_BuyBeforeSell ==
    Generated =>
        \A t \in Rows :
            primary.rows[t] =
                IF StrongBuyAt(t) THEN "STRONG_BUY"
                ELSE IF StrongSellAt(t) THEN "STRONG_SELL"
                ELSE IF MaUp(t) \/ MacdUp(t) THEN "BUY"
                ELSE IF MaDown(t) \/ MacdDown(t) THEN "SELL"
                ELSE "NEUTRAL"

\* C9 (amended): the order is STRONG_BUY, STRONG_SELL, SELL (ma_cross_down
\* or macd_cross_down), BUY (ma_cross_up or macd_cross_up), NEUTRAL: a
\* timestamp with both a buy-side and a sell-side crossover is SELL, and a
\* strong signal is never overwritten by a simple one.
C9_SellBeforeBuy ==
    Generated =>
        \A t \in Rows :
            primary.rows[t] =
                IF StrongBuyAt(t) THEN "STRONG_BUY"
                ELSE IF StrongSellAt(t) THEN "STRONG_SELL"
                ELSE IF MaDown(t) \/ MacdDown(t) THEN "SELL"
                ELSE IF MaUp(t) \/ MacdUp(t) THEN "BUY"
                ELSE "NEUTRAL"

C9_Witness ==
    /\ Generated
    /\ \E t \in Rows : MaUp(t) /\ MacdDown(t) /\ primary.rows[t] = "SELL"
    /\ \E t \in Rows : primary.rows[t] = "BUY"

\* C10: (a) with any of the four indicators disabled no timestamp is
\* STRONG_BUY or STRONG_SELL; (b) a BUY or SELL timestamp has a crossover of
\* an enabled moving_average or macd indicator; (c) with moving_average and
\* macd both disabled every timestamp is NEUTRAL.
C10_DisabledContributeFalse ==
    Generated =>
        /\ enabled # IndicatorNames =>
              \A t \in Rows : primary.rows[t] \notin {"STRONG_BUY", "STRONG_SELL"}
        /\ \A t \in Rows :
              primary.rows[t] \in {"BUY", "SELL"} =>
                 \/ /\ "moving_average" \in enabled
                    /\ \/ CrossAbove(data.MA_Short, data.MA_Long).v[t]
                       \/ CrossBelow(data.MA_Short, data.MA_Long).v[t]
                 \/ /\ "macd" \in enabled
                    /\ \/ CrossAbove(data.MACD, data.Signal_Line).v[t]
                       \/ CrossBelow(data.MACD, data.Signal_Line).v[t]
        /\ ("moving_average" \notin enabled /\ "macd" \notin enabled) =>
              \A t \in Rows : primary.rows[t] = "NEUTRAL"

\* the three other indicators meet the STRONG_BUY conditions while rsi is off
C10_Witness ==
    /\ Generated
    /\ enabled = IndicatorNames \ {"rsi"}
    /\ \E t \in Rows :
          /\ MaUp(t) /\ MacdUp(t) /\ CondAt(Cond.price_below_bb_lower, t)
          /\ primary.rows[t] = "BUY"

\* the rows an indicator needs before its conditions can hold at row t: a
\* rolling window is filled from row w on, an ewm column from the first row,
\* and a crossover also reads row t-1
Max(a, b) == IF a >= b THEN a ELSE b
HasHistory(ind, t) ==
    CASE ind = "moving_average" ->
            t - 1 >= Max(parameters.moving_average.short_window,
                         parameters.moving_average.long_window)
      [] ind = "macd" -> t - 1 >= 1
      [] ind = "rsi" -> t >= parameters.rsi.period
      [] ind = "bollinger" -> t >= parameters.bollinger.window
ConditionsOf(ind) ==
    CASE ind = "moving_average" -> {Cond.ma_cross_above, Cond.ma_cross_below}
      [] ind = "macd" -> {Cond.macd_above_signal, Cond.macd_below_signal}
      [] ind = "rsi" -> {Cond.rsi_overbought, Cond.rsi_oversold}
      [] ind = "bollinger" -> {Cond.price_below_bb_lower, Cond.price_above_bb_upper}

\* C11: at every timestamp where at least one enabled indicator lacks the
\* history it needs (its value, or the prior value a crossover reads, is
\* undefined) the signal is NEUTRAL.
C11_WarmupNeutral ==
    Generated =>
        \A t \in Rows :
            (\E ind \in enabled : ~HasHistory(ind, t)) => primary.rows[t] = "NEUTRAL"

\* C11 (amended): at a timestamp where an enabled indicator lacks history
\* every condition of that indicator is false; so the signal is not
\* STRONG_BUY or STRONG_SELL there, it is BUY or SELL only when an enabled
\* moving_average or macd indicator has its history, and it is NEUTRAL when
\* neither has. The macd columns are defined from the first row, so a BUY or
\* SELL may come before the long moving-average window is filled.
C11_WarmupConditionsFalse ==
    Generated =>
        \A t \in Rows :
            /\ \A ind \in enabled :
                  ~HasHistory(ind, t) => \A m \in ConditionsOf(ind) : ~CondAt(m, t)
            /\ primary.rows[t] \in {"STRONG_BUY", "STRONG_SELL"} =>
                  \A ind \in IndicatorNames : ind \in enabled /\ HasHistory(ind, t)
            /\ primary.rows[t] \in {"BUY", "SELL"} =>
                  \E ind \in {"moving_average", "macd"} :
                      ind \in enabled /\ HasHistory(ind, t)

\* a macd crossover gives BUY while the long moving-average window is unfilled
C11_Witness ==
    /\ Generated
    /\ {"moving_average", "macd"} \subseteq enabled
    /\ \E t \in Rows :
          /\ t < parameters.moving_average.long_window
          /\ ~MaUp(t) /\ MacdUp(t)
          /\ primary.rows[t] = "BUY"

\* C12: simple_name sends STRONG_BUY to BUY, STRONG_SELL to SELL and is the
\* identity on NEUTRAL, BUY, SELL, so its image is {NEUTRAL, BUY, SELL}; the
\* signal_mapping of _run_backtest agrees with it on all five members; and
\* every series of the SignalGenerator, once mapped, passes the Backtester's
\* vocabulary check.
C12_SimpleProjection ==
    /\ \A s \in SignalNames : signal_mapping[s] = simple_name(s)
    /\ {simple_name(s) : s \in SignalNames} = BacktestVocabulary
    /\ \A s \in BacktestVocabulary : simple_name(s) = s
    /\ sgpc = "backtest" =>
          /\ Len(signal_series) = Len(PrimarySeries(primary))
          /\ \A t \in DOMAIN signal_series :
                /\ signal_series[t] = simple_name(PrimarySeries(primary)[t])
                /\ signal_series[t] \in BacktestVocabulary
          /\ signals = signal_series
          /\ error # "vocabulary"

\* a STRONG_BUY row reaches the Backtester as BUY and passes _validate_inputs
C12_Witness ==
    /\ sgpc = "backtest"
    /\ pc = "generate_positions"
    /\ \E t \in Rows : primary.rows[t] = "STRONG_BUY" /\ signals[t] = "BUY"

(* ==================== properties of the SignalConfig ================== *)
\* the parameters the configuration supplies, and whether one is in its range
SuppliedKeys ==
    {key \in ParamKeys :
        key[1] \in DOMAIN parameters /\ key[2] \in DOMAIN parameters[key[1]]}
ValueOf(key) == parameters[key[1]][key[2]]
InRange(key) ==
    LET lo == Supplied(key)[2]
        hi == Supplied(key)[3]
        v == ValueOf(key)
    IN  IF key = <<"bollinger", "std_dev">>
        THEN lo.num * v.den <= v.num * lo.den /\ v.num * hi.den <= hi.num * v.den
        ELSE lo <= v /\ v <= hi
Constructed == cfgpc = "constructed"
Rejected == cfgpc = "raised"

\* C13: constructing a SignalConfig (of dicts) raises exactly when a supplied
\* parameter is outside its range, the two ends of each range being accepted;
\* after a rejection there is no config object, so no SignalGenerator is ever
\* built from it.
C13_RangeValidation ==
    /\ (not_dict = {} /\ cfgpc # "new") =>
          /\ Rejected <=> \E key \in SuppliedKeys : ~InRange(key)
          /\ Rejected <=> cfgerror # "none"
    /\ Rejected => sgpc = "idle" /\ data = EmptyTable /\ primary = NoSignals

\* the upper end of the RSI period range passes, a std_dev of 3.1 is rejected
C13_Witness ==
    /\ Rejected
    /\ group_order = <<"rsi", "bollinger">>
    /\ parameters.rsi.period = 30
    /\ parameters.bollinger.std_dev = [num |-> 31, den |-> 10]
    /\ cfgerror = "Bollinger std_dev must be between 1.5 and 3.0"

\* the documented defaults, and a configuration completed with them
Defaults ==
    [rsi |-> [period |-> 14, overbought |-> 70, oversold |-> 30],
     macd |-> [fast_period |-> 12, slow_period |-> 26, signal_period |-> 9],
     moving_average |-> [short_window |-> 20, long_window |-> 50],
     bollinger |-> [window |-> 20, std_dev |-> [num |-> 2, den |-> 1]]]
WithDefaults(params) ==
    [g \in DOMAIN Defaults |->
        [n \in DOMAIN Defaults[g] |->
            IF g \in DOMAIN params /\ n \in DOMAIN params[g]
            THEN params[g][n] ELSE Defaults[g][n]]]
AbsentParameter ==
    \E key \in ParamKeys : key[1] \in enabled /\ key \notin SuppliedKeys

\* C14: when a parameter (or the whole group) of an enabled indicator is
\* absent and every supplied one is in range, the SignalConfig is constructed
\* and the SignalGenerator computes its indicators and signals with the
\* documented defaults instead of failing.
C14_DefaultsForMissing ==
    (not_dict = {} /\ AbsentParameter /\ \A key \in SuppliedKeys : InRange(key)) =>
        /\ cfgpc \in {"new", "constructed"}
        /\ sgpc # "raised"
        /\ sgpc \in {"ready", "generated"} =>
              data = precompute_indicators(close, enabled, WithDefaults(parameters))
        /\ sgpc = "generated" =>
              primary = generate_signals(data, enabled, WithDefaults(parameters))

\* C15: validation is scoped by the enabled set: a SignalConfig is rejected
\* exactly when a supplied parameter of an enabled indicator is out of range;
\* an out-of-range value in the group of a disabled indicator is not.
C15_EnabledScoped ==
    (not_dict = {} /\ cfgpc # "new") =>
        (Rejected <=> \E key \in SuppliedKeys : key[1] \in enabled /\ ~InRange(key))

\* C15 (amended): validation does not look at the enabled set. Every group
\* present in parameters is validated, so an out-of-range value is rejected
\* in the group of a disabled indicator as in that of an enabled one; and no
\* group is required: with every supplied value in range the SignalConfig is
\* constructed, whatever enabled indicators have no group or parameter.
C15_AllGroupsValidated ==
    (not_dict = {} /\ cfgpc # "new") =>
        /\ \A key \in SuppliedKeys :
              ~InRange(key) =>
                  /\ key[1] \notin enabled => Rejected
                  /\ key[1] \in enabled => Rejected
        /\ (\A key \in SuppliedKeys : InRange(key)) =>
              /\ Constructed
              /\ cfgerror = validate({}, not_dict, group_order, parameters)

\* rsi is enabled and in range; the value that rejects is in the macd group
C15_Witness ==
    /\ Rejected
    /\ enabled = {"rsi"}
    /\ DOMAIN parameters = {"rsi", "macd"}
    /\ \A key \in SuppliedKeys : key[1] = "rsi" => InRange(key)
    /\ \E key \in SuppliedKeys : key[1] = "macd" /\ ~InRange(key)

\* C16: a moving_average group that supplies a long window not greater than
\* its short window is rejected when the SignalConfig is constructed, also
\* when each window is inside its own range.
C16_WindowOrdering ==
    (/\ not_dict = {} /\ cfgpc # "new"
     /\ {<<"moving_average", "short_window">>, <<"moving_average", "long_window">>}
            \subseteq SuppliedKeys) =>
        LET ma == parameters.moving_average
        IN  ma.long_window <= ma.short_window => Rejected

(* ================= properties of the TechnicalIndicators ============== *)
\* the columns of each indicator that has a computation
ColumnsOf(n) ==
    CASE n = "rsi" -> {"RSI"}
      [] n = "moving_averages" -> {"MA_Short", "MA_Long"}
      [] n = "bollinger_bands" -> {"BB_Upper", "BB_Lower"}
      [] n = "macd" -> {"MACD", "Signal_Line"}
      [] OTHER -> {}
Computable == {"rsi", "moving_averages", "bollinger_bands", "macd"}
EnabledNames == {ti_enabled[a].indicator : a \in {b \in DOMAIN ti_enabled : ti_enabled[b].enabled}}
EnabledUnknown == EnabledNames \ Computable # {}

\* C17: calculate_enabled_indicators (a) skips every name whose flag is
\* false, known or not; (b) when it returns, the table has the caller's
\* columns and, for each enabled indicator, exactly that indicator's columns,
\* with the values computed from the Close column alone; (c) when an enabled
\* name has no computation, wherever it stands in the enabled dict, the call
\* never returns a table: it raises (ValueError when the parameters of the
\* names before it are complete).
C17_EnabledIndicators ==
    /\ tipc = "returned" =>
          /\ ~EnabledUnknown
          /\ DOMAIN ti_data = DOMAIN caller_data \cup UNION {ColumnsOf(n) : n \in EnabledNames}
          /\ \A n \in EnabledNames : \A col \in ColumnsOf(n) :
                ti_data[col] = Calculate(n, caller_data, ti_parameters)[col]
          /\ \A col \in DOMAIN caller_data : ti_data[col] = caller_data[col]
    /\ EnabledUnknown =>
          /\ tipc \in {"new", "loop", "raised"}
          /\ tipc = "loop" => ti_k <= Len(ti_enabled)
          /\ ohlc_data = << >> /\ sgpc = "idle"
          /\ (tipc = "raised" /\ ti_parameters = IndicatorParameters) =>
                ti_error = "ValueError: No calculation method"
    /\ tipc = "raised" => ti_error # "none" /\ ohlc_data = << >> /\ sgpc = "idle"

\* an enabled name without a computation stands last, after an enabled known
\* name and a disabled one: the call raises and returns nothing
C17_Witness ==
    /\ tipc = "raised"
    /\ ti_error = "ValueError: No calculation method"
    /\ Len(ti_enabled) = 3
    /\ ti_enabled[1] = [indicator |-> "macd", enabled |-> TRUE]
    /\ ~ti_enabled[2].enabled /\ ti_enabled[2].indicator \in Computable
    /\ ti_enabled[3] = [indicator |-> "moving_average", enabled |-> TRUE]
    /\ ohlc_data = << >>

\* C18: neither a TechnicalIndicators nor a SignalGenerator changes the table
\* it was given: the caller's table has the same columns and values after
\* every step of either, each working on a private copy.
C18_NoMutation ==
    [][/\ caller_data' = caller_data
       /\ sgpc \in {"new", "ready", "generated"} => ohlc_data' = ohlc_data]_vars

\* both have written indicator columns, none of them in the table given
C18_Witness ==
    /\ tipc = "returned" /\ sgpc = "generated"
    /\ Len(close) = MaxRows
    /\ DOMAIN caller_data = {"Close"}
    /\ "RSI" \in DOMAIN ti_data
    /\ ohlc_data = ti_data
    /\ "MA_Short" \notin DOMAIN ohlc_data
    /\ \E t \in DOMAIN data.MA_Short : ~data.MA_Short[t].nan

(* ====================== properties of run_pipeline ==================== *)
\* the iterations that are over, and those among them that logged a failure
Finished == 1..((IF stage = "none" THEN Len(attempted) ELSE Len(attempted) - 1))
FailedIterations == {logged[n].index : n \in DOMAIN logged}

\* C19: run_pipeline attempts every ticker exactly once, in list order; a
\* failure at any of the seven stages is logged and the loop goes on with the
\* next ticker, never raising out of run_pipeline; the call returns, and the
\* results then hold exactly the tickers of the iterations whose stages all
\* succeeded, each with the keys data, signals, metrics, backtest.
C19_Inv ==
    /\ plpc # "raised"
    /\ attempted = SubSeq(tickers, 1, Len(attempted))
    /\ stage = "none" => ticker_index = Len(attempted) + 1
    /\ stage # "none" => ticker_index = Len(attempted)
    /\ \A n \in DOMAIN logged : \A m \in DOMAIN logged :
          logged[n].index = logged[m].index => n = m
    /\ DOMAIN results = {tickers[k] : k \in Finished \ FailedIterations}
    /\ \A t \in DOMAIN results :
          DOMAIN results[t] = {"data", "signals", "metrics", "backtest"}
    /\ plpc = "returned" => attempted = tickers
C19_TickerIsolation ==
    []C19_Inv /\ <>(plpc = "returned")

\* the first ticker fails at its last stage, the second in the middle, the
\* third is processed and is the only one in the results
C19_Witness ==
    /\ plpc = "returned"
    /\ tickers = <<"AAPL", "MSFT", "AAPL">>
    /\ Len(logged) = 2
    /\ logged[1].index = 1 /\ logged[1].stage = "visualize"
    /\ logged[2].index = 2 /\ logged[2].stage = "signals"
    /\ DOMAIN results = {"AAPL"}

(* =================== properties of the FinancialMetrics =============== *)
\* the returns that count: the input without its NaN rows; their common
\* denominator, and the integer products and sums of the definitions
Kept == {t \in DOMAIN fm_input : ~fm_input[t].nan}
RECURSIVE IntProd(_, _)
IntProd(f, D) ==
    IF D = {} THEN 1 ELSE f[LastOf(D)] * IntProd(f, D \ {LastOf(D)})
RECURSIVE IntSum(_, _)
IntSum(f, D) ==
    IF D = {} THEN 0 ELSE f[LastOf(D)] + IntSum(f, D \ {LastOf(D)})
Growth == IntProd([t \in Kept |-> fm_input[t].den + fm_input[t].num], Kept)
Scale == IntProd([t \in Kept |-> fm_input[t].den], Kept)
Numerators == [t \in Kept |-> fm_input[t].num]
Wins == {t \in Kept : fm_input[t].num > 0}
Losses == {t \in Kept : fm_input[t].num < 0}

\* C20: over a series with at least one return left after the NaN rows are
\* dropped, total_return is the product of (1 + r) minus 1, win_rate is the
\* number of returns r > 0 over the number of returns, and profit_factor is
\* the sum of the positive returns over the absolute value of the sum of
\* the negative ones (+inf, the float quotient, when nothing is lost and
\* something is gained).
C20_BasicMetrics ==
    (fmpc = "calculated" /\ Kept # {}) =>
        /\ fm_metrics.total_return = Rat(Growth - Scale, Scale)
        /\ fm_metrics.win_rate = Rat(Cardinality(Wins), Cardinality(Kept))
        /\ Losses # {} =>
              /\ ~fm_metrics.profit_factor.nan
              /\ fm_metrics.profit_factor.den # 0
              /\ fm_metrics.profit_factor.num * (-IntSum(Numerators, Losses))
                    = IntSum(Numerators, Wins) * fm_metrics.profit_factor.den
        /\ (Losses = {} /\ Wins # {}) => fm_metrics.profit_factor = Inf

\* 0.01, -0.01, 0.02, -0.02: win rate 1/2, profit factor 1 and total return
\* 1.01 * 0.99 * 1.02 * 0.98 - 1 = -0.00049996
C20_Witness ==
    /\ fmpc = "calculated"
    /\ fm_input = ExampleReturns
    /\ fm_metrics.win_rate = Rat(2, 4)
    /\ fm_metrics.profit_factor.num = fm_metrics.profit_factor.den
    /\ fm_metrics.total_return = Rat(-49996, 100000000)

\* the kept returns in date order, and the product of 1 + r over the rows
\* s+1 .. t as a numerator over the denominator
KeptValues == Values(fm_input, Kept)
RECURSIVE RangeGrowth(_, _)
RangeGrowth(s, t) ==
    IF t <= s THEN 1
    ELSE RangeGrowth(s, t - 1) * (KeptValues[t].den + KeptValues[t].num)
RECURSIVE RangeScale(_, _)
RangeScale(s, t) ==
    IF t <= s THEN 1 ELSE RangeScale(s, t - 1) * KeptValues[t].den
Spans == {st \in (DOMAIN KeptValues) \X (DOMAIN KeptValues) : st[1] <= st[2]}

\* C21: max_drawdown is the least value of cumulative product / running
\* peak - 1, that is 1 + max_drawdown is the least growth over a span of
\* rows s < u <= t; it is never positive, and 0 when every return is
\* positive; calmar_ratio is NaN exactly when max_drawdown is 0 and
\* otherwise the quotient of annualized_return = (1 + mean)^252 - 1 and
\* |max_drawdown| (NaN on an empty series, where both operands are NaN).
C21_Drawdown ==
    fmpc = "calculated" =>
        LET dd == fm_metrics.max_drawdown
            calmar == fm_metrics.calmar_ratio
        IN  /\ Kept = {} => dd.nan /\ calmar.nan
            /\ Kept # {} =>
                  /\ ~dd.nan /\ dd.den > 0 /\ dd.num <= 0
                  /\ \A st \in Spans :
                        ~FracLess(RangeGrowth(st[1], st[2]), RangeScale(st[1], st[2]),
                                  dd.num + dd.den, dd.den)
                  /\ \E st \in Spans :
                        ~FracLess(dd.num + dd.den, dd.den,
                                  RangeGrowth(st[1], st[2]), RangeScale(st[1], st[2]))
                  /\ Losses = {} => dd.num = 0
                  /\ calmar.nan <=> dd.num = 0
                  /\ fm_metrics.annualized_return =
                        [nan |-> FALSE,
                         growth |-> Rat(IntSum(Numerators, Kept)
                                           + Cardinality(Kept) * KeptValues[1].den,
                                        Cardinality(Kept) * KeptValues[1].den),
                         periods |-> 252]
                  /\ calmar.annualized_return = fm_metrics.annualized_return
                  /\ calmar.max_dd = Rat(-dd.num, dd.den)

\* up 10%, down 20%, up 10%: the drawdown is -1/5 at the second return and
\* the Calmar ratio is a number
C21_Witness ==
    /\ fmpc = "calculated"
    /\ fm_input = <<Rat(1, 10), Rat(-2, 10), NaN, Rat(1, 10)>>
    /\ fm_metrics.max_drawdown.num * 5 = -fm_metrics.max_drawdown.den
    /\ ~fm_metrics.calmar_ratio.nan

\* C22: for every return series without a negative return (all-zero, of
\* one value and empty ones included) sortino_ratio is NaN and profit_factor
\* is +inf; and for every series calculate_all raises nothing and returns a
\* dict with the eleven metric keys.
C22_IllDefinedRatios ==
    /\ fmpc # "raised"
    /\ fmpc = "calculated" =>
          /\ DOMAIN fm_metrics =
                {"total_return", "annualized_return", "annualized_volatility",
                 "sharpe_ratio", "sortino_ratio", "max_drawdown", "calmar_ratio",
                 "win_rate", "profit_factor", "skewness", "kurtosis"}
          /\ Losses = {} =>
                /\ fm_metrics.sortino_ratio.nan
                /\ fm_metrics.profit_factor = Inf

\* two zero returns around a NaN: the Sharpe ratio divides by a zero std,
\* the gross losses are 0, and the dict is returned
C22_Witness ==
    /\ fmpc = "calculated"
    /\ fm_input = <<Rat(0, 10), NaN, Rat(0, 10)>>
    /\ fm_metrics.sharpe_ratio.variance = Rat(0, 400)
    /\ ~fm_metrics.sharpe_ratio.nan
    /\ fm_metrics.sortino_ratio.nan
    /\ fm_metrics.profit_factor = Inf
    /\ fm_metrics.calmar_ratio.nan

\* the short moving average against the long one at row t, from the window
\* sums of the close prices; no comparison holds before both windows are full
WindowSum(t, w) == SumRange(close, t - w + 1, t)
ShortMinusLong(t) ==
    WindowSum(t, parameters.moving_average.short_window)
        * parameters.moving_average.long_window
    - WindowSum(t, parameters.moving_average.long_window)
        * parameters.moving_average.short_window
BothFull(t) ==
    /\ t >= parameters.moving_average.short_window
    /\ t >= parameters.moving_average.long_window
ShortAbove(t) == BothFull(t) /\ ShortMinusLong(t) > 0
ShortBelow(t) == BothFull(t) /\ ShortMinusLong(t) < 0
ShortNotAbove(t) == BothFull(t) /\ ShortMinusLong(t) <= 0
ShortNotBelow(t) == BothFull(t) /\ ShortMinusLong(t) >= 0

\* C25: ma_cross_up holds at t iff the short MA is above the long MA at t
\* and at or below it at t-1, symmetrically for ma_cross_down and for the
\* crossovers of MACD and its signal line; the up and the down crossover of
\* one indicator never hold at the same row, a crossover never holds at two
\* consecutive rows, and with only moving_average enabled a row is BUY
\* (SELL) exactly at an up (down) crossover, so no two consecutive rows are
\* both BUY or both SELL.
C25_EdgeTriggered ==
    Generated =>
        /\ "moving_average" \in enabled =>
              \A t \in Rows :
                 /\ MaUp(t) <=> (t > 1 /\ ShortAbove(t) /\ ShortNotAbove(t - 1))
                 /\ MaDown(t) <=> (t > 1 /\ ShortBelow(t) /\ ShortNotBelow(t - 1))
        /\ "macd" \in enabled =>
              \A t \in Rows :
                 /\ MacdUp(t) <=>
                       /\ t > 1
                       /\ Gt(data.MACD[t], data.Signal_Line[t])
                       /\ Le(data.MACD[t-1], data.Signal_Line[t-1])
                 /\ MacdDown(t) <=>
                       /\ t > 1
                       /\ Lt(data.MACD[t], data.Signal_Line[t])
                       /\ Ge(data.MACD[t-1], data.Signal_Line[t-1])
        /\ \A t \in Rows :
              /\ ~(MaUp(t) /\ MaDown(t))
              /\ ~(MacdUp(t) /\ MacdDown(t))
              /\ t + 1 \in Rows =>
                    /\ ~(MaUp(t) /\ MaUp(t + 1))
                    /\ ~(MaDown(t) /\ MaDown(t + 1))
                    /\ ~(MacdUp(t) /\ MacdUp(t + 1))
                    /\ ~(MacdDown(t) /\ MacdDown(t + 1))
        /\ enabled = {"moving_average"} =>
              \A t \in Rows :
                 /\ primary.rows[t] = "BUY" <=> MaUp(t)
                 /\ primary.rows[t] = "SELL" <=> MaDown(t)
                 /\ t + 1 \in Rows =>
                       ~(/\ primary.rows[t] \in {"BUY", "SELL"}
                         /\ primary.rows[t + 1] = primary.rows[t])

\* the short MA crosses above the long MA at row 3 and is still above it at
\* row 4: row 3 is BUY and row 4 is NEUTRAL
C25_Witness ==
    /\ Generated
    /\ enabled = {"moving_average"}
    /\ parameters.moving_average.short_window = 1
    /\ close = <<2, 1, 2, 3>>
    /\ ShortAbove(3) /\ ShortAbove(4)
    /\ primary.rows = <<"NEUTRAL", "NEUTRAL", "BUY", "NEUTRAL">>

====
